---- MODULE Spec2Model ----
(***************************************************************************)
(* A model of the weather assistant: the three orchestrators               *)
(* (agent.WeatherAgent, openai_agent.OpenAIWeatherAgent and                *)
(* simple_langchain_agent.SimpleLangChainWeatherAgent), the two service    *)
(* clients of api_services and the command-line loops that drive them.     *)
(*                                                                         *)
(* Text is modelled as a sequence of tokens.  A token is one character     *)
(* ("p", "P", " ", "?", "."), or a run of characters that the code only    *)
(* ever handles as a unit ("weather in", a literal of an f-string, the     *)
(* text of an upstream error).  The letters used for free text do not      *)
(* occur in the fixed prefixes, so a substring search over tokens finds    *)
(* exactly what the search over characters finds.                          *)
(***************************************************************************)
EXTENDS Integers, Sequences, FiniteSets, TLC

VARIABLES
    variant,              \* which orchestrator class serves the query
    mode,                 \* reasoning_type after .lower()
    pc,                   \* position inside process_query
    query,                \* the query string
    location,             \* local variable location / selected_location
    needs_weather,        \* local variable needs_weather
    needs_location_info,  \* local variable needs_location_info
    weather_data,         \* local variable weather_data
    wiki_data,            \* local variable wiki_data
    reflection,           \* parsed result of the reflection step
    reply,                \* the value returned by process_query
    raised,               \* the exception that left process_query, or "none"
    calls,                \* the external calls of this query, in order
    composed,             \* what the composing LLM call was handed
    last_weather_data,    \* attribute last_weather_data of the agent object
    last_location,        \* attribute last_location of the agent object
    planning,             \* the parsed plan of the react mode
    possible_locations,   \* the candidates parsed from the tot reply, in order
    evaluations,          \* the evaluations parsed from the tot reply
    cli,                  \* the program whose loop drives the agent, or "none"
    typed,                \* what the user typed at the reasoning-type prompt
    clothing              \* the outcome of the turn's clothing step

vars == <<variant, mode, pc, query, location, needs_weather, needs_location_info,
          weather_data, wiki_data, reflection, reply, raised, calls, composed,
          last_weather_data, last_location, planning, possible_locations,
          evaluations, cli, typed, clothing>>

-----------------------------------------------------------------------------
(* Bounds of the model.                                                    *)

\* longest free text typed after the lead-in of a query
MaxLen == 5

-----------------------------------------------------------------------------
(* Python string operations, on sequences of tokens.                       *)

MaxOf(S) == CHOOSE m \in S : \A k \in S : k <= m
MinOf(S) == CHOOSE m \in S : \A k \in S : m <= k

\* str.lower(), one token at a time
ToLower(c) ==
    CASE c = "P" -> "p"
      [] c = "YES" -> "yes"
      [] c = "EXIT" -> "exit"
      [] c = "COT" -> "cot"
      [] c = "TODAY" -> "today"
      [] c = "Snow" -> "snow"
      [] OTHER -> c

\* str.lower()
PyLower(s) == [i \in 1..Len(s) |-> ToLower(s[i])]

\* the characters str.strip() removes by default
Whitespace == {" "}

\* the argument '?!.,;:' of rstrip / strip
Punct == {"?", "!", ".", ",", ";", ":"}

\* str.rstrip(chars)
RStripChars(s, cs) ==
    LET keep == {i \in 1..Len(s) : s[i] \notin cs}
    IN  IF keep = {} THEN <<>> ELSE SubSeq(s, 1, MaxOf(keep))

\* str.lstrip(chars)
LStripChars(s, cs) ==
    LET keep == {i \in 1..Len(s) : s[i] \notin cs}
    IN  IF keep = {} THEN <<>> ELSE SubSeq(s, MinOf(keep), Len(s))

\* str.strip(chars)
StripChars(s, cs) == LStripChars(RStripChars(s, cs), cs)

\* str.strip()
PyStrip(s) == StripChars(s, Whitespace)

\* str.find(sub) + 1: the position of the first occurrence of sub, 0 if none
Find(s, sub) ==
    LET hits == {i \in 1..(Len(s) - Len(sub) + 1) : SubSeq(s, i, i + Len(sub) - 1) = sub}
    IN  IF hits = {} THEN 0 ELSE MinOf(hits)

\* sub in s
Contains(s, sub) == Find(s, sub) > 0

\* s.replace(tok, ""), for a one-token text tok
RemoveAll(s, tok) == SelectSeq(s, LAMBDA c : c /= tok)

\* s.startswith(p)
StartsWith(s, p) == Len(s) >= Len(p) /\ SubSeq(s, 1, Len(p)) = p

\* the text after the first occurrence of sep (sep occurs in s)
AfterFirst(s, sep) == SubSeq(s, Find(s, sep) + Len(sep), Len(s))

\* s.split(sep)[1], for sep in s: the text between the first occurrence of
\* sep and the next one after it (or the end of s)
Split1(s, sep) ==
    LET rest == AfterFirst(s, sep)
        nxt  == Find(rest, sep)
    IN  IF nxt = 0 THEN rest ELSE SubSeq(rest, 1, nxt - 1)

\* s.split(sep), for the one-token separators seps: the pieces of s
\* between them
RECURSIVE SplitAt(_, _)
SplitAt(s, seps) ==
    LET at == {k \in DOMAIN s : s[k] \in seps}
    IN  IF at = {} THEN <<s>>
        ELSE <<SubSeq(s, 1, MinOf(at) - 1)>>
               \o SplitAt(SubSeq(s, MinOf(at) + 1, Len(s)), seps)

-----------------------------------------------------------------------------
(* agent.WeatherAgent._extract_location                                    *)

WeatherIn  == <<"weather in", " ">>
WeatherFor == <<"weather for", " ">>
WeatherAt  == <<"weather at", " ">>

\* agent.py lines 38 and 41: the cleaned query
CleanQuery(q) == RStripChars(PyStrip(PyLower(q)), Punct)

\* the same without the lower() of line 38
ExtractLocationKeepCase(q) ==
    LET cq  == RStripChars(PyStrip(q), Punct)
        loc == IF Contains(cq, WeatherIn) THEN PyStrip(Split1(cq, WeatherIn))
               ELSE IF Contains(cq, WeatherFor) THEN PyStrip(Split1(cq, WeatherFor))
               ELSE IF Contains(cq, WeatherAt) THEN PyStrip(Split1(cq, WeatherAt))
               ELSE cq
    IN  RStripChars(loc, Punct)

\* an extraction without the fallback of lines 50-53
ExtractLocationNoFallback(q) ==
    LET cq  == CleanQuery(q)
        loc == IF Contains(cq, WeatherIn) THEN PyStrip(Split1(cq, WeatherIn))
               ELSE IF Contains(cq, WeatherFor) THEN PyStrip(Split1(cq, WeatherFor))
               ELSE IF Contains(cq, WeatherAt) THEN PyStrip(Split1(cq, WeatherAt))
               ELSE <<>>
    IN  RStripChars(loc, Punct)

\* the extraction taking everything after the first occurrence of the
\* prefix
ExtractLocationToTheEnd(q) ==
    LET cq  == CleanQuery(q)
        loc == IF Contains(cq, WeatherIn) THEN PyStrip(AfterFirst(cq, WeatherIn))
               ELSE IF Contains(cq, WeatherFor) THEN PyStrip(AfterFirst(cq, WeatherFor))
               ELSE IF Contains(cq, WeatherAt) THEN PyStrip(AfterFirst(cq, WeatherAt))
               ELSE cq
    IN  RStripChars(loc, Punct)

\* lines 38-57
ExtractLocation(q) ==
    LET cq  == CleanQuery(q)
        loc == IF Contains(cq, WeatherIn) THEN PyStrip(Split1(cq, WeatherIn))
               ELSE IF Contains(cq, WeatherFor) THEN PyStrip(Split1(cq, WeatherFor))
               ELSE IF Contains(cq, WeatherAt) THEN PyStrip(Split1(cq, WeatherAt))
               ELSE cq
    IN  RStripChars(loc, Punct)

-----------------------------------------------------------------------------
(* Python values.                                                          *)

\* None, where the code holds a dict or None
None == [py_none |-> TRUE]

\* None, where the code holds a str or None
NoneStr == <<"<None>">>

\* not d, for a dict or None
Falsy(d) == d = None \/ DOMAIN d = {}

\* not s, for a str or None
Empty(s) == s = NoneStr \/ s = <<>>

\* "error" in d
HasError(d) == "error" \in DOMAIN d

\* str(x) inside an f-string, for a str or None
Fmt(s) == IF s = NoneStr THEN <<"None">> ELSE s

-----------------------------------------------------------------------------
(* api_services.WeatherService and api_services.WikipediaService           *)

\* the outcome of a call that raised
Raised(e) == [raised |-> e]

\* out is the outcome of a call that raised
IsRaised(out) == "raised" \in DOMAIN out

\* str(e) of the RequestException raised by requests.get / raise_for_status
RequestErrors == {"404 Client Error: Not Found", "Connection refused"}

\* a 2xx body with the nested fields of section 6 of the spec
Payload(loc) ==
    [main    |-> [temp |-> 20, feels_like |-> 18, humidity |-> 50],
     weather |-> <<[description |-> "clear"]>>,
     name    |-> loc]

\* a 2xx body without them: response.json() is returned unvalidated
BarePayload == [cod |-> 200]

\* the error marker of get_weather
WeatherMarker(e) == [error |-> <<"Weather API error: ", e>>]

\* location.strip() raises AttributeError on None before any request is
\* made, and only RequestException is caught
GetWeatherRaises(loc) == loc = NoneStr

\* self.api_key
ApiKey == "58a1809bd5d800285b6ff1070121ae2b"

\* lines 19-25 without the strip of line 19
GetParamsUntrimmed(loc) == [q |-> loc, appid |-> ApiKey, units |-> "metric"]

\* lines 19-25: the query parameters of the one GET
GetParams(loc) == [q |-> PyStrip(loc), appid |-> ApiKey, units |-> "metric"]

\* what requests.get and raise_for_status can do with the GET: raise a
\* RequestException (no connection, a status of 400 or more), or hand
\* over the body of a 2xx response
GetOutcomes(loc) ==
    {Raised(e) : e \in RequestErrors}
        \cup {[json |-> Payload(PyStrip(loc))], [json |-> BarePayload]}

\* lines 27-34, given the outcome of the GET
GetWeatherReturn(h) == IF IsRaised(h) THEN WeatherMarker(h.raised) ELSE h.json

\* what get_weather(loc) can return
GetWeatherResults(loc) == {GetWeatherReturn(h) : h \in GetOutcomes(loc)}

\* str(e) of the WikipediaException raised by the lookup
WikipediaErrors == {"Page id does not match any pages"}

\* what get_location_info(loc) can return
GetLocationInfoResults(loc) ==
    {[error |-> <<"No Wikipedia information found for ">> \o Fmt(loc)]}
        \cup {[error |-> <<"Wikipedia error: ", e>>] : e \in WikipediaErrors}
        \cup {[summary |-> <<"summary of ">> \o Fmt(loc), url |-> <<"url of ">> \o Fmt(loc)]}

\* the exceptions of the lookup that are no WikipediaException (the HTTP
\* layer under the wikipedia package raises requests' own): not caught
WikipediaEscapes == {"ConnectionError"}

\* weather_data["main"]["temp"] and the three reads beside it succeed
HasNested(d) == "main" \in DOMAIN d /\ "weather" \in DOMAIN d

-----------------------------------------------------------------------------
(* Replies.                                                                *)

Clarify == <<"I couldn't identify a location in your query. Please specify a city or place.">>

ClarifyCot == <<"After careful consideration, I couldn't identify a location in your query. Please specify a city or place.">>

ClarifyTot == <<"After exploring multiple possibilities, I couldn't determine a location from your query. Please specify a city or place.">>

\* f"Sorry, I couldn't get weather information: {weather_data['error']}"
Sorry(d) == <<"Sorry, I couldn't get weather information: ">> \o d.error

\* f"I couldn't find weather information for {location}."
NotFound(loc) == <<"I couldn't find weather information for ">> \o Fmt(loc) \o <<".">>

\* the figures as the f-strings print them
TempText(d)  == <<ToString(d.main.temp), "°C">>
FeelsText(d) == <<ToString(d.main.feels_like), "°C">>
HumText(d)   == <<ToString(d.main.humidity), "%">>
CondText(d)  == <<d.weather[1].description>>

OpenWeatherMapUrl == <<"https://openweathermap.org/">>

\* str.title(): the tokens of the model that it changes
ToTitle(c) == IF c = "p" THEN "P" ELSE c
PyTitle(s) == [i \in 1..Len(s) |-> ToTitle(s[i])]

\* agent.WeatherAgent._format_response, lines 68-71 (its bullet character is
\* written "*")
WeatherLines(loc, wd) ==
    <<"Weather in ">> \o PyTitle(loc) \o <<":\n">>
      \o <<"* Current condition: ">> \o CondText(wd) \o <<"\n">>
      \o <<"* Temperature: ">> \o TempText(wd) \o <<" (feels like ">> \o FeelsText(wd) \o <<")\n">>
      \o <<"* Humidity: ">> \o HumText(wd) \o <<"\n\n">>

\* the same with the encyclopedia's error shown in place of the section
FormatResponseShowingError(loc, wd, wk) ==
    WeatherLines(loc, wd)
      \o (IF ~HasError(wk)
          THEN <<"About ">> \o PyTitle(loc) \o <<":\n">> \o wk.summary \o <<"\n">>
                 \o <<"Learn more: ">> \o wk.url
          ELSE <<"About ">> \o PyTitle(loc) \o <<":\n">> \o wk.error)

\* agent.WeatherAgent._format_response
FormatResponse(loc, wd, wk) ==
    WeatherLines(loc, wd)
      \o (IF ~HasError(wk)
          THEN <<"About ">> \o PyTitle(loc) \o <<":\n">> \o wk.summary \o <<"\n">>
                 \o <<"Learn more: ">> \o wk.url
          ELSE <<>>)

-----------------------------------------------------------------------------
(* The queries and the steps common to the orchestrators.                  *)

\* the characters of the free text of a query
TextChars == {"p", "P", " ", "?"}

\* every text of at most n characters
Texts(n) == UNION {[1..k -> TextChars] : k \in 0..n}

\* what a query starts with, before its free text
LeadIns == {<<>>, WeatherIn, <<"P", " ">> \o WeatherIn, WeatherFor, WeatherAt,
            <<"weather in">>,
            WeatherIn \o <<"p", " ">> \o WeatherIn,
            WeatherAt \o <<"p", " ">> \o WeatherIn,
            WeatherAt \o <<"p", " ">> \o WeatherIn \o <<"P", " ">> \o WeatherIn}

\* the queries handed to process_query
Queries == {<<>>, <<"?">>, <<" ", "?", " ">>, <<"?", " ", "?">>, <<"p">>,
            WeatherIn \o <<"P", "?">>, WeatherIn}

Variants == {"direct", "openai", "langchain"}

Modes == {"react", "cot", "tot"}

Locals == <<location, needs_weather, needs_location_info, weather_data, wiki_data,
            reflection, composed>>

Agent == <<last_weather_data, last_location>>

\* the state of the command-line loop around the agent
Caller == <<cli, typed, clothing>>

Request == <<variant, mode, query>>

\* hasattr(agent, name) is false
Absent == [py_absent |-> TRUE]

\* return r
Return(r) == pc' = "done" /\ reply' = r /\ raised' = "none"

\* an exception leaves process_query
Raise(e) == pc' = "done" /\ reply' = <<>> /\ raised' = e

\* control moves on to the next external call
Goto(p) == pc' = p /\ UNCHANGED <<reply, raised>>

\* an external call is made, with its argument and its outcome
Call(svc, arg, out) == calls' = Append(calls, [svc |-> svc, arg |-> arg, out |-> out])

\* the outcomes of an LLM call that raises (or whose reply json.loads rejects)
LLMFailures == {Raised("APIError")}

NoCall == UNCHANGED calls

\* the values of the locals before their first assignment
FreshLocals ==
    /\ location' = <<>>
    /\ needs_weather' = TRUE
    /\ needs_location_info' = TRUE
    /\ weather_data' = None
    /\ wiki_data' = None
    /\ reflection' = None
    /\ composed' = None
    /\ planning' = None
    /\ possible_locations' = <<>>
    /\ evaluations' = <<>>

\* the reasoning types a caller may hand to process_query
ReasoningFlags == {"react", "cot", "tot", "COT", "fast"}

\* f"Invalid reasoning type. Please choose from: {', '.join(self.reasoning_types)}"
InvalidReasoning == <<"Invalid reasoning type. Please choose from: react, cot, tot">>

\* the dispatch without the lower() of line 51
DispatchCaseSensitive(v, r) ==
    /\ mode' = r
    /\ IF v = "direct" \/ r \in Modes
       THEN pc' = "extract" /\ reply' = <<>> /\ raised' = "none"
       ELSE Return(InvalidReasoning)

\* process_query of the LLM-backed agents, lines 51-61: reasoning_type is
\* lower-cased and checked, then the pipeline of that name is entered
Dispatch(v, r) ==
    /\ mode' = ToLower(r)
    /\ IF v = "direct" \/ ToLower(r) \in Modes
       THEN pc' = "extract" /\ reply' = <<>> /\ raised' = "none"
       ELSE Return(InvalidReasoning)

\* a caller invokes process_query(query, reasoning_type) on one of the
\* agents (process_query(query) on the direct one)
Submit ==
    /\ pc = "await"
    /\ cli = "none"
    /\ \E v \in Variants, q \in Queries :
          /\ variant' = v
          /\ query' = q
          /\ \E r \in (IF v = "direct" THEN {"direct"} ELSE ReasoningFlags) :
                typed' = r /\ Dispatch(v, r)
    /\ FreshLocals
    /\ calls' = <<>>
    /\ UNCHANGED <<Agent, cli, clothing>>

\* process_query has returned or raised (or the turn of a prompt loop is
\* over), its locals are gone, and the caller is ready to ask again
Loop ==
    /\ \/ pc = "done" /\ cli = "none"
       \/ pc \in {"turn_end", "debug_end"}
    /\ pc' = "await"
    /\ FreshLocals
    /\ reply' = <<>>
    /\ raised' = "none"
    /\ calls' = <<>>
    /\ clothing' = None
    /\ UNCHANGED <<Request, Agent, cli, typed>>

-----------------------------------------------------------------------------
(* agent.WeatherAgent.process_query                                        *)

\* the same without the check of line 17
DirectAfterExtractUnchecked(loc) == "weather"

\* lines 17-18: the check of the extracted location
DirectAfterExtract(loc) == IF Empty(loc) THEN "clarify" ELSE "weather"

\* lines 16-18
DirectExtract ==
    /\ pc = "extract" /\ variant = "direct"
    /\ location' = ExtractLocation(query)
    /\ IF DirectAfterExtract(location') = "clarify" THEN Return(Clarify) ELSE Goto("weather")
    /\ NoCall
    /\ UNCHANGED <<Request, Agent, Caller, planning, possible_locations, evaluations, needs_weather, needs_location_info, weather_data,
                   wiki_data, reflection, composed>>

\* line 21: the result is not looked at before the lookup of line 22
DirectWeather ==
    /\ pc = "weather" /\ variant = "direct"
    /\ \E wd \in GetWeatherResults(location) :
          /\ weather_data' = wd
          /\ Call("weather", GetParams(location), wd)
          /\ Goto("wiki")
    /\ UNCHANGED <<Request, Agent, Caller, planning, possible_locations, evaluations, location, needs_weather, needs_location_info,
                   wiki_data, reflection, composed>>

\* lines 22-29
DirectWiki ==
    /\ pc = "wiki" /\ variant = "direct"
    /\ \/ \E e \in WikipediaEscapes :
            /\ Call("wiki", location, Raised(e))
            /\ Raise(e)
            /\ UNCHANGED wiki_data
       \/ \E wk \in GetLocationInfoResults(location) :
            /\ Call("wiki", location, wk)
            /\ wiki_data' = wk
            /\ IF HasError(weather_data) THEN Return(Sorry(weather_data))
               ELSE IF ~HasNested(weather_data) THEN Raise("KeyError")
               ELSE Return(FormatResponse(location, weather_data, wk))
    /\ UNCHANGED <<Request, Agent, Caller, planning, possible_locations, evaluations, location, needs_weather, needs_location_info,
                   weather_data, reflection, composed>>

-----------------------------------------------------------------------------
(* The LLM, as the orchestrators see it: a call raises or returns text.    *)

\* d.get(k, dflt)
DictGet(d, k, dflt) == IF k \in DOMAIN d THEN d[k] ELSE dflt

\* the values a JSON reply gives for a location: a name, a name with
\* punctuation, the empty string, null
JsonLocations == {<<"p">>, <<" ", "p", "?">>, <<>>, NoneStr}

\* the JSON objects the planning call returns (json.loads of the reply)
PlanJson ==
    {[location |-> l, needs_weather |-> b] : l \in JsonLocations, b \in BOOLEAN}
        \cup {[location |-> <<"p">>, needs_weather |-> b, needs_location_info |-> FALSE] :
                 b \in BOOLEAN}
        \cup {[location |-> <<"p">>], [needs_weather |-> TRUE]}

\* the JSON objects the cot and tot calls return, with the location under key k
CotJson == {[location |-> l] : l \in JsonLocations} \cup {[reasoning_steps |-> <<"Step 1">>]}

TotJson == {[selected_location |-> l] : l \in JsonLocations} \cup {[reasoning |-> <<"none">>]}

\* the location an alternative is proposed as: a name, "", null
JsonAlternatives == {<<"q">>, <<>>, NoneStr}

\* the JSON objects the reflection call returns
ReflectJson ==
    {[sufficient |-> TRUE], [notes |-> <<"fine">>], [sufficient |-> FALSE],
     [suggested_action |-> "try_alternative_location", alternative_location |-> <<"q">>],
     [sufficient |-> FALSE, suggested_action |-> "try_alternative_location"],
     [sufficient |-> FALSE, suggested_action |-> "get_location_info",
      alternative_location |-> <<"q">>],
     [sufficient |-> TRUE, suggested_action |-> "try_alternative_location",
      alternative_location |-> <<"q">>]}
        \cup {[sufficient |-> FALSE, suggested_action |-> "try_alternative_location",
               alternative_location |-> a] : a \in JsonAlternatives}

\* what the composing call is handed
ComposeInput(loc, wd, summary, url) ==
    [location |-> Fmt(loc), weather |-> wd, wiki_summary |-> summary, wiki_url |-> url]

\* a reply of the composing LLM that repeats what it was handed
LLMEcho(c) ==
    <<"The weather in ">> \o c.location \o <<" is ">> \o CondText(c.weather)
      \o <<", ">> \o TempText(c.weather) \o <<", feels like ">> \o FeelsText(c.weather)
      \o <<", humidity ">> \o HumText(c.weather) \o <<". ">> \o c.wiki_summary
      \o <<" ", "Sources: [Weather data from OpenWeatherMap](">> \o OpenWeatherMapUrl
      \o <<"), ", "[Location info from Wikipedia](">> \o c.wiki_url \o <<")">>

\* the replies of the composing LLM: nothing binds it to its instructions
ComposeTexts(c) ==
    {LLMEcho(c), <<"Have a nice day!">>,
     <<"Temperature:", " ", ToString(c.weather.main.temp), "\n", "Have a nice day!">>}

-----------------------------------------------------------------------------
(* openai_agent.OpenAIWeatherAgent                                         *)

\* the clean-up of lines 416-417, 471-472 and 527-528
CleanJsonLocation(r, k) ==
    IF k \in DOMAIN r /\ ~Empty(r[k])
    THEN [r EXCEPT ![k] = RStripChars(PyStrip(r[k]), Punct)]
    ELSE r

\* _reason_and_plan when the call or json.loads raises
PlanDefault == [location |-> <<>>, needs_weather |-> TRUE, needs_location_info |-> TRUE]

\* _reason_with_cot when the call or json.loads raises
CotDefault == [reasoning_steps |-> <<"Error occurred during reasoning">>, location |-> <<>>]

\* _reason_with_tot when the call or json.loads raises
TotDefault == [selected_location |-> <<>>, reasoning |-> <<"Error occurred during reasoning">>]

\* _reflect_on_data when the call or json.loads raises
ReflectDefault == [sufficient |-> TRUE, notes |-> <<"Reflection process encountered an error">>]

\* _process_query_react lines 81-103
OpenAIPlan ==
    /\ pc = "extract" /\ variant = "openai" /\ mode = "react"
    /\ \E out \in LLMFailures \cup {[json |-> r] : r \in PlanJson} :
        LET plan == IF IsRaised(out) THEN PlanDefault
                    ELSE CleanJsonLocation(out.json, "location")
        IN
          /\ Call("llm_plan", query, out)
          /\ planning' = plan
          /\ location' = DictGet(plan, "location", NoneStr)
          /\ needs_weather' = DictGet(plan, "needs_weather", TRUE)
          /\ needs_location_info' = TRUE
          /\ IF Empty(location') THEN Return(Clarify)
             ELSE IF needs_weather' THEN Goto("weather")
             ELSE Goto("wiki")
    /\ UNCHANGED <<Request, Agent, Caller, possible_locations, evaluations, weather_data,
                   wiki_data, reflection, composed>>

\* _process_query_cot lines 216-232
OpenAICot ==
    /\ pc = "extract" /\ variant = "openai" /\ mode = "cot"
    /\ \E out \in LLMFailures \cup {[json |-> r] : r \in CotJson} :
        LET cot_result == IF IsRaised(out) THEN CotDefault
                          ELSE CleanJsonLocation(out.json, "location")
        IN
          /\ Call("llm_cot", query, out)
          /\ location' = DictGet(cot_result, "location", <<>>)
          /\ IF Empty(location') THEN Return(ClarifyCot) ELSE Goto("weather")
    /\ UNCHANGED <<Request, Agent, Caller, planning, possible_locations, evaluations, needs_weather, needs_location_info, weather_data,
                   wiki_data, reflection, composed>>

\* _process_query_tot lines 294-321
OpenAITot ==
    /\ pc = "extract" /\ variant = "openai" /\ mode = "tot"
    /\ \E out \in LLMFailures \cup {[json |-> r] : r \in TotJson} :
        LET tot_result == IF IsRaised(out) THEN TotDefault
                          ELSE CleanJsonLocation(out.json, "selected_location")
        IN
          /\ Call("llm_tot", query, out)
          /\ location' = DictGet(tot_result, "selected_location", <<>>)
          /\ IF Empty(location') THEN Return(ClarifyTot) ELSE Goto("weather")
    /\ UNCHANGED <<Request, Agent, Caller, planning, possible_locations, evaluations, needs_weather, needs_location_info, weather_data,
                   wiki_data, reflection, composed>>

\* _process_query_react lines 112-124 (and 240-250, 329-339 of cot and tot)
OpenAIWeather ==
    /\ pc = "weather" /\ variant = "openai"
    /\ \E wd \in GetWeatherResults(location) :
          /\ Call("weather", GetParams(location), wd)
          /\ weather_data' = wd
          /\ IF HasError(wd) THEN Return(Sorry(wd))
             ELSE IF ~HasNested(wd) THEN Raise("KeyError")
             ELSE Goto("wiki")
    /\ UNCHANGED <<Request, Agent, Caller, planning, possible_locations, evaluations, location, needs_weather, needs_location_info,
                   wiki_data, reflection, composed>>

\* _process_query_react lines 127-141 (and 252-264, 341-353)
OpenAIWiki ==
    /\ pc = "wiki" /\ variant = "openai"
    /\ \/ \E e \in WikipediaEscapes :
            Call("wiki", location, Raised(e)) /\ Raise(e) /\ UNCHANGED wiki_data
       \/ \E wk \in GetLocationInfoResults(location) :
            /\ Call("wiki", location, wk)
            /\ wiki_data' = wk
            /\ IF mode = "react" THEN Goto("reflect") ELSE Goto("compose")
    /\ UNCHANGED <<Request, Agent, Caller, planning, possible_locations, evaluations, location, needs_weather, needs_location_info,
                   weather_data, reflection, composed>>

\* the same with a missing verdict read as insufficient
OpenAIRetryTakenUnlessSufficient(refl) ==
    /\ ~DictGet(refl, "sufficient", FALSE)
    /\ "suggested_action" \in DOMAIN refl
    /\ refl.suggested_action = "try_alternative_location"
    /\ "alternative_location" \in DOMAIN refl

\* the condition of lines 167 and 172
OpenAIRetryTaken(refl) ==
    /\ ~DictGet(refl, "sufficient", TRUE)
    /\ "suggested_action" \in DOMAIN refl
    /\ refl.suggested_action = "try_alternative_location"
    /\ "alternative_location" \in DOMAIN refl

\* _process_query_react lines 147-175 with _reflect_on_data
OpenAIReflect ==
    /\ pc = "reflect" /\ variant = "openai"
    /\ \E out \in LLMFailures \cup {[json |-> r] : r \in ReflectJson} :
        LET refl == IF IsRaised(out) THEN ReflectDefault ELSE out.json
        IN
          /\ Call("llm_reflect", query, out)
          /\ reflection' = refl
          /\ IF OpenAIRetryTaken(refl)
             THEN IF needs_weather THEN Goto("retry_weather") ELSE Goto("retry_wiki")
             ELSE Goto("compose")
    /\ UNCHANGED <<Request, Agent, Caller, planning, possible_locations, evaluations, location, needs_weather, needs_location_info,
                   weather_data, wiki_data, composed>>

\* lines 175-180
OpenAIRetryWeather ==
    /\ pc = "retry_weather" /\ variant = "openai"
    /\ LET alt_location == reflection.alternative_location
       IN  IF GetWeatherRaises(alt_location)
           THEN Raise("AttributeError") /\ NoCall /\ UNCHANGED weather_data
           ELSE /\ \E wd \in GetWeatherResults(alt_location) :
                        /\ Call("weather", GetParams(alt_location), wd)
                        /\ weather_data' = wd
                /\ Goto("retry_wiki")
    /\ UNCHANGED <<Request, Agent, Caller, planning, possible_locations, evaluations, location, needs_weather, needs_location_info,
                   wiki_data, reflection, composed>>

\* a retry that would be followed by another reflection
AfterRetryReflectAgain == "reflect"

\* where control goes once the alternative has been fetched: line 194
\* (simple_langchain_agent.py line 322), the composition
AfterRetry == "compose"

\* lines 181-188
OpenAIRetryWiki ==
    /\ pc = "retry_wiki" /\ variant = "openai"
    /\ LET alt_location == reflection.alternative_location
       IN  \/ \E e \in WikipediaEscapes :
                   /\ Call("wiki", alt_location, Raised(e))
                   /\ Raise(e)
                   /\ UNCHANGED <<wiki_data, location>>
           \/ \E wk \in GetLocationInfoResults(alt_location) :
                   /\ Call("wiki", alt_location, wk)
                   /\ wiki_data' = wk
                   /\ location' = alt_location
                   /\ Goto(AfterRetry)
    /\ UNCHANGED <<Request, Agent, Caller, planning, possible_locations, evaluations, needs_weather, needs_location_info,
                   weather_data, reflection, composed>>

\* a fallback sentence that would name its sources
OpenAIComposeFailedWithSources(loc) ==
    <<"I found information about the weather in ">> \o Fmt(loc)
      \o <<", but encountered an error creating a response.">>
      \o <<" ", "Sources: [Weather data from OpenWeatherMap](">> \o OpenWeatherMapUrl \o <<")">>

\* line 706
OpenAIComposeFailed(loc) ==
    <<"I found information about the weather in ">> \o Fmt(loc)
      \o <<", but encountered an error creating a response.">>

\* _generate_response lines 616-706
OpenAICompose ==
    /\ pc = "compose" /\ variant = "openai"
    /\ IF Falsy(weather_data) \/ HasError(weather_data)
       THEN Return(NotFound(location)) /\ NoCall /\ UNCHANGED composed
       ELSE IF ~HasNested(weather_data)
       THEN Return(OpenAIComposeFailed(location)) /\ NoCall /\ UNCHANGED composed
       ELSE LET data == ComposeInput(location, weather_data,
                            IF ~Falsy(wiki_data)
                            THEN DictGet(wiki_data, "summary", <<"No information available">>)
                            ELSE <<"Not requested">>,
                            IF ~Falsy(wiki_data) /\ "url" \in DOMAIN wiki_data
                            THEN wiki_data.url ELSE <<>>)
            IN  /\ composed' = data
                /\ \E out \in LLMFailures \cup {[text |-> t] : t \in ComposeTexts(data)} :
                      /\ Call("llm_compose", query, out)
                      /\ IF IsRaised(out) THEN Return(OpenAIComposeFailed(location))
                         ELSE Return(out.text)
    /\ UNCHANGED <<Request, Agent, Caller, planning, possible_locations, evaluations, location, needs_weather, needs_location_info,
                   weather_data, wiki_data, reflection>>

-----------------------------------------------------------------------------
(* simple_langchain_agent.SimpleLangChainWeatherAgent: the text protocol   *)
(* A reply of the LLM is a sequence of lines (text.strip().split('\n')).   *)

\* the lines that start with the field prefix, once stripped
LinesWith(lines, prefix) ==
    {i \in 1..Len(lines) : StartsWith(PyStrip(lines[i]), <<prefix>>)}

\* line.replace(prefix, "").strip() of a stripped line
FieldValue(line, prefix) == PyStrip(RemoveAll(PyStrip(line), prefix))

\* the value a field has after the loop over the lines: that of the last
\* line carrying its prefix, or its default
FieldOf(lines, prefix, dflt) ==
    IF LinesWith(lines, prefix) = {} THEN dflt
    ELSE FieldValue(lines[MaxOf(LinesWith(lines, prefix))], prefix)

\* zero or one line
Opt(S) == {<<>>} \cup {<<l>> : l \in S}

\* the planning replies of the react mode
PlanTexts ==
    {a \o b \o c :
        a \in Opt({<<"LOCATION:", " ", "p">>, <<"LOCATION:">>}),
        b \in Opt({<<"NEEDS_WEATHER:", " ", "YES">>, <<"NEEDS_WEATHER:", " ", "no">>}),
        c \in {<< <<"NEEDS_LOCATION_INFO:", " ", "yes">> >>,
               << <<"NEEDS_LOCATION_INFO:", " ", "no">> >>}}
        \cup {<< <<"LOCATION:", " ", "p">>, <<"TIME_PERIOD:", " ", "TODAY">>,
                 <<"WEATHER_ASPECTS:", " ", "rain", ",", " ", "wind">>,
                 <<"NEEDS_WEATHER:", " ", "no">>, <<"NEEDS_WEATHER:", " ", "yes">>,
                 <<" ", "LOCATION:", " ", "q">> >>,
               << <<"WEATHER_ASPECTS:">>, <<"LOCATION:", " ", "p", " ", "LOCATION:">> >>}

\* the parsing with the first line of each prefix winning
ParsePlanFirstLine(lines) ==
    LET first(prefix, dflt) ==
            IF LinesWith(lines, prefix) = {} THEN dflt
            ELSE FieldValue(lines[MinOf(LinesWith(lines, prefix))], prefix)
    IN  [location            |-> first("LOCATION:", <<>>),
         time_period         |-> PyLower(first("TIME_PERIOD:", <<"current">>)),
         weather_aspects     |-> IF LinesWith(lines, "WEATHER_ASPECTS:") = {} THEN <<>>
                                 ELSE [k \in DOMAIN SplitAt(first("WEATHER_ASPECTS:", <<>>), {","}) |->
                                         PyStrip(SplitAt(first("WEATHER_ASPECTS:", <<>>), {","})[k])],
         needs_weather       |-> PyLower(first("NEEDS_WEATHER:", <<"yes">>)) = <<"yes">>,
         needs_location_info |-> PyLower(first("NEEDS_LOCATION_INFO:", <<"yes">>)) = <<"yes">>]

\* line 127: the aspects, split at the commas and stripped
Aspects(v) == [k \in DOMAIN SplitAt(v, {","}) |-> PyStrip(SplitAt(v, {","})[k])]

\* lines 108-127
ParsePlan(lines) ==
    [location            |-> FieldOf(lines, "LOCATION:", <<>>),
     time_period         |-> PyLower(FieldOf(lines, "TIME_PERIOD:", <<"current">>)),
     weather_aspects     |-> IF LinesWith(lines, "WEATHER_ASPECTS:") = {} THEN <<>>
                             ELSE Aspects(FieldOf(lines, "WEATHER_ASPECTS:", <<>>)),
     needs_weather       |-> IF LinesWith(lines, "NEEDS_WEATHER:") = {} THEN TRUE
                             ELSE PyLower(FieldOf(lines, "NEEDS_WEATHER:", <<>>)) = <<"yes">>,
     needs_location_info |-> IF LinesWith(lines, "NEEDS_LOCATION_INFO:") = {} THEN TRUE
                             ELSE PyLower(FieldOf(lines, "NEEDS_LOCATION_INFO:", <<>>)) = <<"yes">>]

HowsTheWeatherIn  == <<"how's the ">> \o WeatherIn
HowIsTheWeatherIn == <<"how is the ">> \o WeatherIn

\* the list of lines 144, 459, 477 and 730
FallbackPrefixes ==
    <<WeatherIn, WeatherAt, WeatherFor, HowsTheWeatherIn, HowIsTheWeatherIn>>

\* lines 143-148 (and 458-463, 476-481, 729-734)
FallbackExtract(q) ==
    LET l    == PyLower(q)
        hits == {i \in 1..Len(FallbackPrefixes) : Contains(l, FallbackPrefixes[i])}
        loc  == IF hits = {} THEN l
                ELSE PyStrip(Split1(l, FallbackPrefixes[MinOf(hits)]))
    IN  StripChars(loc, Punct)

\* the replies of the cot extraction call
CotTexts ==
    {<< <<"Step 1: look for a place">>, <<"LOCATION:", " ", "p">> >>,
     << <<"Step 1: look for a place">>, <<" ", "LOCATION:", " ", "p">> >>,
     << <<"Step 1: look for a place">> >>,
     << <<"LOCATION:">> >>}

\* lines 444-453: the lines are not stripped before startswith
ParseCot(lines) ==
    LET hits == {i \in 1..Len(lines) : StartsWith(lines[i], <<"LOCATION:">>)}
    IN  IF hits = {} THEN <<>>
        ELSE PyStrip(RemoveAll(lines[MaxOf(hits)], "LOCATION:"))

\* the replies of the tot extraction call
TotTexts ==
    {<< <<"POSSIBLE LOCATION:", " ", "p">>, <<"SCORE:", " ", "80">>,
        <<"POSSIBLE LOCATION:", " ", "q">>, <<"SCORE:", " ", "60">>,
        <<"SELECTED LOCATION:", " ", "p">> >>,
     << <<"POSSIBLE LOCATION:", " ", "p">>, <<"SCORE:", " ", "80">>,
        <<"POSSIBLE LOCATION:", " ", "q">>, <<"SCORE:", " ", "60">> >>,
     << <<"POSSIBLE LOCATION:", " ", "p">>, <<"SCORE:", " ", "80">> >>,
     << <<" ", "POSSIBLE LOCATION:", " ", "p", " ">>, <<"SELECTED LOCATION:">> >>,
     << <<"POSSIBLE LOCATION:", " ", "p">>, <<"SCORE:", " ", "8.5">>,
        <<"REASON:", " ", "named">>, <<"POSSIBLE LOCATION:", " ", "q">>,
        <<"POSSIBLE LOCATION:", " ", "p">>, <<"SCORE:", " ", "70">> >>,
     << <<"SCORE:", " ", "50">>, <<"POSSIBLE LOCATION:", " ", "q">>,
        <<"SELECTED LOCATION:", " ", "q">> >>,
     << <<"I cannot tell.">> >>}

\* int(current_score) of lines 685-688: 0 when it raises ValueError
TotScore(v) ==
    IF Len(v) = 1 /\ v[1] \in {ToString(n) : n \in 0..100}
    THEN CHOOSE n \in 0..100 : ToString(n) = v[1]
    ELSE 0

\* evaluations[current_location] = {...} of lines 675-678 and 700-703
TotSaved(st) ==
    [c \in DOMAIN st.evaluations \cup {st.current_location} |->
        IF c = st.current_location
        THEN [score  |-> st.current_score,
              reason |-> IF Empty(st.current_reason) THEN <<"No reason provided">>
                         ELSE st.current_reason]
        ELSE st.evaluations[c]]

\* the locals of the loop before its first line: lines 660, 664-666
TotStart ==
    [evaluations |-> <<>>, current_location |-> NoneStr, scored |-> FALSE,
     current_score |-> 0, current_reason |-> NoneStr]

\* a loop body that would carry the score over to the next candidate
TotLineKeepScore(st, line) ==
    LET l == PyStrip(line)
    IN  IF StartsWith(l, <<"POSSIBLE LOCATION:">>)
        THEN [st EXCEPT !.evaluations = IF ~Empty(st.current_location) /\ st.scored
                                        THEN TotSaved(st) ELSE st.evaluations,
                        !.current_location = FieldValue(line, "POSSIBLE LOCATION:"),
                        !.current_reason = NoneStr]
        ELSE IF StartsWith(l, <<"SCORE:">>)
        THEN [st EXCEPT !.scored = TRUE, !.current_score = TotScore(FieldValue(line, "SCORE:"))]
        ELSE IF StartsWith(l, <<"REASON:">>)
        THEN [st EXCEPT !.current_reason = FieldValue(line, "REASON:")]
        ELSE st

\* the body of the loop over the lines, lines 669-694, for what it does to
\* the evaluations; scored says that current_score is not None
TotLine(st, line) ==
    LET l == PyStrip(line)
    IN  IF StartsWith(l, <<"POSSIBLE LOCATION:">>)
        THEN [st EXCEPT !.evaluations = IF ~Empty(st.current_location) /\ st.scored
                                        THEN TotSaved(st) ELSE st.evaluations,
                        !.current_location = FieldValue(line, "POSSIBLE LOCATION:"),
                        !.scored = FALSE,
                        !.current_reason = NoneStr]
        ELSE IF StartsWith(l, <<"SCORE:">>)
        THEN [st EXCEPT !.scored = TRUE, !.current_score = TotScore(FieldValue(line, "SCORE:"))]
        ELSE IF StartsWith(l, <<"REASON:">>)
        THEN [st EXCEPT !.current_reason = FieldValue(line, "REASON:")]
        ELSE st

\* the loop of line 668 over the first n lines
RECURSIVE TotLoop(_, _)
TotLoop(lines, n) ==
    IF n = 0 THEN TotStart ELSE TotLine(TotLoop(lines, n - 1), lines[n])

\* lines 659-703: the evaluations after the loop and the save of the last
\* candidate
TotEvaluations(lines) ==
    LET st == TotLoop(lines, Len(lines))
    IN  IF /\ ~Empty(st.current_location)
           /\ st.scored
           /\ st.current_location \notin DOMAIN st.evaluations
        THEN TotSaved(st) ELSE st.evaluations

\* a parser that would fall back to the first of several candidates
ParseTotFirstCandidate(lines) ==
    LET cand == SelectSeq(lines, LAMBDA l : StartsWith(PyStrip(l), <<"POSSIBLE LOCATION:">>))
        locs == [i \in 1..Len(cand) |-> FieldValue(cand[i], "POSSIBLE LOCATION:")]
        selected == FieldOf(lines, "SELECTED LOCATION:", <<>>)
    IN  [possible_locations |-> locs,
         evaluations        |-> TotEvaluations(lines),
         selected_location  |-> IF Len(locs) >= 1 /\ Empty(selected)
                                THEN locs[1] ELSE selected]

\* lines 659-707: the candidates in the order of their lines, and the
\* selection (the last SELECTED LOCATION line, else the only candidate)
ParseTot(lines) ==
    LET cand == SelectSeq(lines, LAMBDA l : StartsWith(PyStrip(l), <<"POSSIBLE LOCATION:">>))
        locs == [i \in 1..Len(cand) |-> FieldValue(cand[i], "POSSIBLE LOCATION:")]
        selected == FieldOf(lines, "SELECTED LOCATION:", <<>>)
    IN  [possible_locations |-> locs,
         evaluations        |-> TotEvaluations(lines),
         selected_location  |-> IF Len(locs) = 1 /\ Empty(selected)
                                THEN locs[1] ELSE selected]

\* the replies of the reflection call
ReflectTexts ==
    {<< <<"SUFFICIENT:", " ", "yes">> >>,
     << <<"NOTES:", " ", "fine">> >>,
     << <<"SUFFICIENT:", " ", "no">>, <<"SUGGESTED_ACTION:", " ", "none">>,
        <<"ALTERNATIVE_LOCATION:", " ", "q">> >>,
     << <<"SUFFICIENT:", " ", "no">>, <<"SUGGESTED_ACTION:", " ", "try_alternative_location">>,
        <<"ALTERNATIVE_LOCATION:", " ", "none">> >>,
     << <<"SUFFICIENT:", " ", "no">>, <<"SUGGESTED_ACTION:", " ", "try_alternative_location">>,
        <<"ALTERNATIVE_LOCATION:", " ", "q">> >>,
     << <<"SUFFICIENT:", " ", "yes">>, <<"SUGGESTED_ACTION:", " ", "try_alternative_location">>,
        <<"ALTERNATIVE_LOCATION:", " ", "q">> >>,
     << <<"SUGGESTED_ACTION:", " ", "try_alternative_location">>,
        <<"ALTERNATIVE_LOCATION:", " ", "q">> >>,
     << <<"SUFFICIENT:">>, <<"SUGGESTED_ACTION:", " ", "try_alternative_location">>,
        <<"ALTERNATIVE_LOCATION:", " ", "q">> >>}

\* x, or "" when x.lower() == "none"
NoneToEmpty(x) == IF PyLower(x) = <<"none">> THEN <<>> ELSE x

\* lines 249-273
ParseReflection(lines) ==
    [sufficient           |-> IF LinesWith(lines, "SUFFICIENT:") = {} THEN TRUE
                              ELSE PyLower(FieldOf(lines, "SUFFICIENT:", <<>>)) = <<"yes">>,
     notes                |-> FieldOf(lines, "NOTES:", <<>>),
     suggested_action     |-> NoneToEmpty(FieldOf(lines, "SUGGESTED_ACTION:", <<>>)),
     alternative_location |-> NoneToEmpty(FieldOf(lines, "ALTERNATIVE_LOCATION:", <<>>))]

\* lines 310-312
LCReflectDefault ==
    [sufficient |-> TRUE, notes |-> <<"Reflection process encountered an error">>,
     suggested_action |-> <<>>, alternative_location |-> <<>>]

\* the condition of lines 284 and 288
LCRetryTaken(refl) ==
    /\ ~refl.sufficient
    /\ ~Empty(refl.suggested_action)
    /\ refl.suggested_action = <<"try_alternative_location">>
    /\ ~Empty(refl.alternative_location)

-----------------------------------------------------------------------------
(* simple_langchain_agent.SimpleLangChainWeatherAgent: the pipelines       *)

\* where the react pipeline goes once the location is known: lines 160, 176
LCAfterPlan(nw, nli) == IF nw THEN "weather" ELSE IF nli THEN "wiki" ELSE "reflect"

\* _process_query_react lines 97-151
LCPlan ==
    /\ pc = "extract" /\ variant = "langchain" /\ mode = "react"
    /\ \/ \* the call raises: lines 139-151
          /\ \E out \in LLMFailures : Call("llm_plan", query, out)
          /\ location' = FallbackExtract(query)
          /\ needs_weather' = TRUE
          /\ needs_location_info' = TRUE
          /\ UNCHANGED planning
          /\ Goto("weather")
       \/ \E text \in PlanTexts :
            LET plan == ParsePlan(text)
            IN  /\ Call("llm_plan", query, [text |-> text])
                /\ planning' = plan
                /\ location' = plan.location
                /\ needs_weather' = plan.needs_weather
                /\ needs_location_info' = plan.needs_location_info
                /\ IF Empty(plan.location) THEN Return(Clarify)
                   ELSE Goto(LCAfterPlan(plan.needs_weather, plan.needs_location_info))
    /\ UNCHANGED <<Request, Agent, Caller, possible_locations, evaluations, weather_data,
                   wiki_data, reflection, composed>>

\* _process_query_cot lines 433-483
LCCot ==
    /\ pc = "extract" /\ variant = "langchain" /\ mode = "cot"
    /\ \/ \* the call raises: lines 472-483
          /\ \E out \in LLMFailures : Call("llm_cot", query, out)
          /\ location' = FallbackExtract(query)
          /\ Goto("weather")
       \/ \E text \in CotTexts :
            LET parsed == ParseCot(text)
                loc    == IF Empty(parsed) THEN FallbackExtract(query) ELSE parsed
            IN  /\ Call("llm_cot", query, [text |-> text])
                /\ location' = loc
                /\ IF Empty(loc) THEN Return(ClarifyCot) ELSE Goto("weather")
    /\ UNCHANGED <<Request, Agent, Caller, planning, possible_locations, evaluations, needs_weather, needs_location_info, weather_data,
                   wiki_data, reflection, composed>>

\* _process_query_tot lines 648-738
LCTot ==
    /\ pc = "extract" /\ variant = "langchain" /\ mode = "tot"
    /\ \/ \* the call raises: lines 725-738
          /\ \E out \in LLMFailures : Call("llm_tot", query, out)
          /\ location' = FallbackExtract(query)
          /\ UNCHANGED <<possible_locations, evaluations>>
          /\ Goto("weather")
       \/ \E text \in TotTexts :
            LET selected_location == ParseTot(text).selected_location
            IN  /\ Call("llm_tot", query, [text |-> text])
                /\ possible_locations' = ParseTot(text).possible_locations
                /\ evaluations' = ParseTot(text).evaluations
                /\ location' = selected_location
                /\ IF Empty(selected_location) THEN Return(ClarifyTot) ELSE Goto("weather")
    /\ UNCHANGED <<Request, Agent, Caller, planning, needs_weather, needs_location_info, weather_data,
                   wiki_data, reflection, composed>>

\* _process_query_react lines 160-172 (and 491-501, 746-756 of cot and tot)
LCWeather ==
    /\ pc = "weather" /\ variant = "langchain"
    /\ \E wd \in GetWeatherResults(location) :
          /\ Call("weather", GetParams(location), wd)
          /\ weather_data' = wd
          /\ IF HasError(wd) THEN Return(Sorry(wd))
             ELSE IF ~HasNested(wd) THEN Raise("KeyError")
             ELSE IF mode = "react" /\ ~needs_location_info THEN Goto("reflect")
             ELSE Goto("wiki")
    /\ UNCHANGED <<Request, Agent, Caller, planning, possible_locations, evaluations, location, needs_weather, needs_location_info,
                   wiki_data, reflection, composed>>

\* _process_query_react lines 176-189 (and 504-519, 759-774)
LCWiki ==
    /\ pc = "wiki" /\ variant = "langchain"
    /\ \/ \E e \in WikipediaEscapes :
            Call("wiki", location, Raised(e)) /\ Raise(e) /\ UNCHANGED wiki_data
       \/ \E wk \in GetLocationInfoResults(location) :
            /\ Call("wiki", location, wk)
            /\ wiki_data' = wk
            /\ IF mode = "react" THEN Goto("reflect") ELSE Goto("compose")
    /\ UNCHANGED <<Request, Agent, Caller, planning, possible_locations, evaluations, location, needs_weather, needs_location_info,
                   weather_data, reflection, composed>>

\* _process_query_react lines 238-292 and 308-314
LCReflect ==
    /\ pc = "reflect" /\ variant = "langchain"
    /\ \E out \in LLMFailures \cup {[text |-> t] : t \in ReflectTexts} :
        LET refl == IF IsRaised(out) THEN LCReflectDefault ELSE ParseReflection(out.text)
        IN
          /\ Call("llm_reflect", query, out)
          /\ reflection' = refl
          /\ IF ~LCRetryTaken(refl) THEN Goto("compose") /\ UNCHANGED location
             ELSE IF needs_weather THEN Goto("retry_weather") /\ UNCHANGED location
             ELSE IF needs_location_info THEN Goto("retry_wiki") /\ UNCHANGED location
             ELSE Goto(AfterRetry) /\ location' = refl.alternative_location
    /\ UNCHANGED <<Request, Agent, Caller, planning, possible_locations, evaluations, needs_weather, needs_location_info,
                   weather_data, wiki_data, composed>>

\* lines 292-297 and 307
LCRetryWeather ==
    /\ pc = "retry_weather" /\ variant = "langchain"
    /\ LET alt_location == reflection.alternative_location
       IN  /\ \E wd \in GetWeatherResults(alt_location) :
                   /\ Call("weather", GetParams(alt_location), wd)
                   /\ weather_data' = wd
           /\ IF needs_location_info
              THEN Goto("retry_wiki") /\ UNCHANGED location
              ELSE Goto(AfterRetry) /\ location' = alt_location
    /\ UNCHANGED <<Request, Agent, Caller, planning, possible_locations, evaluations, needs_weather, needs_location_info,
                   wiki_data, reflection, composed>>

\* lines 299-314: an exception of the lookup is caught by the except of
\* line 308, which skips the assignment of line 307
LCRetryWiki ==
    /\ pc = "retry_wiki" /\ variant = "langchain"
    /\ LET alt_location == reflection.alternative_location
       IN  \/ \E e \in WikipediaEscapes :
                   /\ Call("wiki", alt_location, Raised(e))
                   /\ Goto(AfterRetry)
                   /\ UNCHANGED <<wiki_data, location>>
           \/ \E wk \in GetLocationInfoResults(alt_location) :
                   /\ Call("wiki", alt_location, wk)
                   /\ wiki_data' = wk
                   /\ location' = alt_location
                   /\ Goto(AfterRetry)
    /\ UNCHANGED <<Request, Agent, Caller, planning, possible_locations, evaluations, needs_weather, needs_location_info,
                   weather_data, reflection, composed>>

\* a fallback sentence without the figures
FiguresSentenceNoFigures(wd) ==
    <<" humidity.\n\n", "Sources: [Weather data from OpenWeatherMap](">>
      \o OpenWeatherMapUrl \o <<")">>

\* the part the three fallback replies share: lines 401, 607 and 875
FiguresSentence(wd) ==
    TempText(wd) \o <<", feels like ">> \o FeelsText(wd) \o <<", with ">>
      \o CondText(wd) \o <<" and ">> \o HumText(wd)
      \o <<" humidity.\n\n", "Sources: [Weather data from OpenWeatherMap](">>
      \o OpenWeatherMapUrl \o <<")">>

\* lines 401, 607 and 875
LCFallback(m, loc, wd) ==
    IF m = "react"
    THEN <<"In ">> \o loc \o <<", the current temperature is ">> \o FiguresSentence(wd)
    ELSE IF m = "cot"
    THEN <<"Through chain-of-thought reasoning, I identified your location as ">> \o loc
           \o <<". Currently, the temperature is ">> \o FiguresSentence(wd)
    ELSE <<"After considering multiple possible locations, I identified ">> \o loc
           \o <<" as the most likely. The current temperature is ">> \o FiguresSentence(wd)

\* lines 322-401 (and 527-607, 782-875)
LCCompose ==
    /\ pc = "compose" /\ variant = "langchain"
    /\ IF mode = "react" /\ (Falsy(weather_data) \/ HasError(weather_data))
       THEN Return(NotFound(location)) /\ NoCall /\ UNCHANGED composed
       ELSE IF ~HasNested(weather_data)
       THEN Raise("KeyError") /\ NoCall /\ UNCHANGED composed
       ELSE LET wiki_ok == ~Falsy(wiki_data) /\ ~HasError(wiki_data)
                data == ComposeInput(location, weather_data,
                            IF wiki_ok
                            THEN DictGet(wiki_data, "summary", <<"No information available">>)
                            ELSE <<"No information available">>,
                            IF wiki_ok THEN DictGet(wiki_data, "url", <<>>) ELSE <<>>)
            IN  /\ composed' = data
                /\ \E out \in LLMFailures \cup {[text |-> t] : t \in ComposeTexts(data)} :
                      /\ Call("llm_compose", query, out)
                      /\ IF IsRaised(out) THEN Return(LCFallback(mode, location, weather_data))
                         ELSE Return(out.text)
    /\ UNCHANGED <<Request, Agent, Caller, planning, possible_locations, evaluations, location, needs_weather, needs_location_info,
                   weather_data, wiki_data, reflection>>

-----------------------------------------------------------------------------
(* clothe_agent.ClotheAgent                                                *)

\* the replies of the recommending LLM
ClotheTexts == {<<"Wear a light jacket.">>}

\* what the recommendation prompt is formatted with, lines 44-47 and
\* 96-103: the figures of the snapshot, or the defaults of the .get calls
ClothePrompt(wd, loc) ==
    [location    |-> loc,
     time_period |-> "current",
     temperature |-> DictGet(DictGet(wd, "main", <<>>), "temp", 0),
     feels_like  |-> DictGet(DictGet(wd, "main", <<>>), "feels_like", 0),
     humidity    |-> DictGet(DictGet(wd, "main", <<>>), "humidity", 0),
     conditions  |-> DictGet(DictGet(wd, "weather", <<<<>>>>)[1], "description", "unknown")]

\* the lower-cased conditions that hold "rain" or "drizzle", "snow", "clear"
RainConditions == {"light rain", "drizzle", "rain and snow", "rain, clearing"}
SnowConditions == {"snow", "rain and snow", "snow, clearing"}
ClearConditions == {"clear", "clear sky", "rain, clearing", "snow, clearing"}

\* the tiers with 25 degrees counted as hot
ClothingForFrom25(temperature) ==
    IF temperature >= 25
    THEN "light clothing such as t-shirts, shorts or light dresses"
    ELSE IF temperature > 15
    THEN "medium-weight clothing such as long sleeves, light jackets, or jeans"
    ELSE IF temperature > 5
    THEN "warm clothing such as sweaters, jackets, and long pants"
    ELSE "heavy winter clothing including a warm coat, scarf, gloves, and hat"

\* _generate_fallback_recommendation, lines 123-130
ClothingFor(temperature) ==
    IF temperature > 25
    THEN "light clothing such as t-shirts, shorts or light dresses"
    ELSE IF temperature > 15
    THEN "medium-weight clothing such as long sleeves, light jackets, or jeans"
    ELSE IF temperature > 5
    THEN "warm clothing such as sweaters, jackets, and long pants"
    ELSE "heavy winter clothing including a warm coat, scarf, gloves, and hat"

\* lines 133-138
ConditionAdvice(temperature, conditions) ==
    IF ToLower(conditions) \in RainConditions
    THEN <<". Don't forget a waterproof jacket or umbrella">>
    ELSE IF ToLower(conditions) \in SnowConditions
    THEN <<". Make sure to wear waterproof boots and a warm hat">>
    ELSE IF ToLower(conditions) \in ClearConditions /\ temperature > 20
    THEN <<". Consider wearing sunglasses and applying sunscreen">>
    ELSE <<>>

\* line 140
FallbackRecommendation(temperature, conditions) ==
    <<"Based on the current temperature of ", ToString(temperature), "°C with ",
      conditions, ", I recommend wearing ", ClothingFor(temperature)>>
      \o ConditionAdvice(temperature, conditions) \o <<".">>

\* generate_clothing_recommendation(wd, loc), lines 94-119, given the
\* outcome of its LLM call
Recommendation(wd, loc, out) ==
    IF IsRaised(out)
    THEN FallbackRecommendation(ClothePrompt(wd, loc).temperature,
                                ClothePrompt(wd, loc).conditions)
    ELSE out.text

-----------------------------------------------------------------------------
(* main.py, main_simple_langchain.py and main_clothe_weather_agent.py      *)

\* the programs with a prompt loop
CLIs == {"main", "main_simple_langchain", "main_clothe_weather_agent"}

\* the agent each program constructs
AgentOf(c) == IF c = "main" THEN "openai" ELSE "langchain"

\* what the user types at the reasoning-type prompt
ReasoningEntries == {"react", "COT", "tot", "", "fast", "exit"}

\* the same without the check of line 26
NormaliseReasoningUnchecked(t) ==
    IF ToLower(t) = "" THEN "react" ELSE ToLower(t)

\* lines 25-30 of main.py (25-31 of the other two)
NormaliseReasoning(t) ==
    IF ToLower(t) \notin {"react", "cot", "tot", ""} THEN "react"
    ELSE IF ToLower(t) = "" THEN "react"
    ELSE ToLower(t)

\* what the user types at the query prompt
QueryEntries(c) ==
    {<<>>, <<" ">>, <<"exit">>, <<"EXIT">>, <<"p">>, WeatherIn \o <<"P", "?">>}
        \cup (IF c = "main" THEN {<<"debug">>} ELSE {})
        \cup (IF c = "main_clothe_weather_agent"
              THEN {<<"wear", " ">> \o WeatherIn \o <<"p", " ", "TODAY">>} ELSE {})

\* what the user types at the debug prompt of main.py
DebugEntries == {<<"exit">>, <<"p">>}

\* what the user answers when asked about clothing recommendations
Answers == {"y", "n"}

\* the keywords of main_clothe_weather_agent.py line 44
ClothingWords == {"wear", "clothing", "dress", "outfit", "attire"}

\* line 44: a keyword occurs in query.lower()
AskingForClothing(q) == \E k \in DOMAIN q : ToLower(q[k]) \in ClothingWords

\* the tokens of a reply that end a line
LineEnds == {"\n", ":\n", " humidity.\n\n"}

\* weather_response.split('\n'), line 70: the lines of a reply, without
\* the tokens that end them
SplitLines(r) == SplitAt(r, LineEnds)

\* the texts float() accepts
Numerals == {ToString(n) : n \in 0..40}

\* float(t), for t in Numerals
NumOf(t) == CHOOSE n \in 0..40 : ToString(n) = t

\* "Temperature:" in line or "temperature:" in line
TemperatureLabels == {"Temperature:", "temperature:"}

\* line 73: the text after the first colon of the line, stripped, up to the
\* first "Â°C", stripped (no colon stands before the label in the replies
\* of the model)
TempTextOf(line) ==
    LET k    == MinOf({i \in DOMAIN line : line[i] \in TemperatureLabels})
        rest == PyStrip(SubSeq(line, k + 1, Len(line)))
        cut  == Find(rest, <<"Â°C">>)
    IN  PyStrip(IF cut = 0 THEN rest ELSE SubSeq(rest, 1, cut - 1))

\* lines 72-82: the line sets the temperature of the snapshot
SetsTemperature(line) ==
    /\ \E i \in DOMAIN line : line[i] \in TemperatureLabels
    /\ Len(TempTextOf(line)) = 1
    /\ TempTextOf(line)[1] \in Numerals

\* lines 70-82: the snapshot parsed from the reply, None when no line of
\* it sets a temperature
ParsedSnapshot(r) ==
    LET lines == SplitLines(r)
        hits  == {k \in DOMAIN lines : SetsTemperature(lines[k])}
    IN  IF hits = {} THEN None
        ELSE [main |-> [temp |-> NumOf(TempTextOf(lines[MaxOf(hits)])[1])]]

\* line 85, in the order tried ("in " and "for " occur in the queries of
\* the model only inside "weather in " and "weather for ")
LocationIndicators == <<WeatherIn, WeatherFor, WeatherAt>>

\* lines 86-89: the first word after the first indicator that occurs in
\* query.lower(), None without one
GuessedLocation(q) ==
    LET lq   == PyLower(q)
        hits == {k \in DOMAIN LocationIndicators : Contains(lq, LocationIndicators[k])}
    IN  IF hits = {} THEN NoneStr
        ELSE LET rest == PyStrip(AfterFirst(lq, LocationIndicators[MinOf(hits)]))
                 sp   == Find(rest, <<" ">>)
             IN  IF sp = 0 THEN rest ELSE SubSeq(rest, 1, sp - 1)

\* lines 91-93
DefaultSnapshot ==
    [main    |-> [temp |-> 20, feels_like |-> 20, humidity |-> 50],
     weather |-> <<[description |-> "unknown"]>>]

\* lines 95-96
ProvidedLocation == <<"the provided location">>

\* lines 61-93: the snapshot handed to the clothing agent
ClotheSnapshot(r) ==
    LET wd == IF last_weather_data /= Absent THEN last_weather_data ELSE ParsedSnapshot(r)
    IN  IF Falsy(wd) THEN DefaultSnapshot ELSE wd

\* lines 62-96: the location handed to the clothing agent
ClotheLocation(q) ==
    LET loc == IF last_weather_data /= Absent THEN last_location ELSE GuessedLocation(q)
    IN  IF Empty(loc) THEN ProvidedLocation ELSE loc

\* the reasoning-type prompt and its normalisation
PromptReasoning ==
    /\ pc = "await" /\ cli \in CLIs
    /\ \E t \in ReasoningEntries :
          /\ typed' = t
          /\ mode' = NormaliseReasoning(t)
    /\ pc' = "query_prompt"
    /\ UNCHANGED <<variant, query, Agent, cli, clothing, Locals, planning, possible_locations, evaluations, composed,
                   reply, raised, calls>>

\* the query prompt: exit, the empty query, debug, or process_query
PromptQuery ==
    /\ pc = "query_prompt"
    /\ \E q \in QueryEntries(cli) :
          /\ query' = q
          /\ IF PyLower(q) = <<"exit">>
             THEN pc' = "exited" /\ UNCHANGED <<mode, reply, raised>>
             ELSE IF cli = "main" /\ PyLower(q) = <<"debug">>
             THEN pc' = "debug_prompt" /\ UNCHANGED <<mode, reply, raised>>
             ELSE IF cli /= "main" /\ PyStrip(q) = <<>>
             THEN pc' = "await" /\ UNCHANGED <<mode, reply, raised>>
             ELSE Dispatch(variant, mode)
    /\ typed' = ""
    /\ UNCHANGED <<variant, Agent, cli, clothing, Locals, planning, possible_locations, evaluations, composed, calls>>

\* main.py lines 36-40 with get_thought_process, openai_agent.py lines
\* 708-743: the plan, both lookups when a location was found, the
\* reflection, and the dump that is printed
MainDebug ==
    /\ pc = "debug_prompt"
    /\ \E q \in DebugEntries :
       \E out \in LLMFailures \cup {[json |-> r] : r \in PlanJson} :
        LET plan == IF IsRaised(out) THEN PlanDefault
                    ELSE CleanJsonLocation(out.json, "location")
            loc  == DictGet(plan, "location", <<>>)
        IN
          /\ query' = q
          /\ planning' = plan
          /\ location' = loc
          /\ IF Empty(loc)
             THEN /\ calls' = <<[svc |-> "llm_plan", arg |-> q, out |-> out]>>
                  /\ pc' = "debug_end"
                  /\ raised' = "none"
                  /\ UNCHANGED <<weather_data, wiki_data, reflection>>
             ELSE \E wd \in GetWeatherResults(loc) :
                    \/ \E e \in WikipediaEscapes :
                          /\ calls' = <<[svc |-> "llm_plan", arg |-> q, out |-> out],
                                        [svc |-> "weather", arg |-> GetParams(loc), out |-> wd],
                                        [svc |-> "wiki", arg |-> loc, out |-> Raised(e)]>>
                          /\ weather_data' = wd
                          /\ pc' = "exited"
                          /\ raised' = e
                          /\ UNCHANGED <<wiki_data, reflection>>
                    \/ \E wk \in GetLocationInfoResults(loc),
                          rout \in LLMFailures \cup {[json |-> r] : r \in ReflectJson} :
                          /\ calls' = <<[svc |-> "llm_plan", arg |-> q, out |-> out],
                                        [svc |-> "weather", arg |-> GetParams(loc), out |-> wd],
                                        [svc |-> "wiki", arg |-> loc, out |-> wk],
                                        [svc |-> "llm_reflect", arg |-> q, out |-> rout]>>
                          /\ weather_data' = wd
                          /\ wiki_data' = wk
                          /\ reflection' = IF IsRaised(rout) THEN ReflectDefault ELSE rout.json
                          /\ pc' = "debug_end"
                          /\ raised' = "none"
    /\ UNCHANGED <<variant, mode, Agent, Caller, possible_locations, evaluations, needs_weather, needs_location_info,
                   composed, reply>>

\* main.py has no handler inside its loop: an exception of process_query
\* reaches the one around the loop, and the program ends
MainCrash ==
    /\ pc = "done" /\ cli = "main" /\ raised /= "none"
    /\ pc' = "exited"
    /\ UNCHANGED <<Request, Agent, Caller, Locals, planning, possible_locations, evaluations, composed, reply, raised, calls>>

\* main.py lines 45-47: the reply is printed
MainPrint ==
    /\ pc = "done" /\ cli = "main" /\ raised = "none"
    /\ pc' = "turn_end"
    /\ UNCHANGED <<Request, Agent, Caller, Locals, planning, possible_locations, evaluations, composed, reply, raised, calls>>

\* main_simple_langchain.py lines 49-75
SimpleClothing ==
    /\ pc = "done" /\ cli = "main_simple_langchain"
    /\ pc' = "turn_end"
    /\ IF raised /= "none"
       THEN clothing' = [status |-> "aborted"] /\ NoCall
       ELSE \E a \in Answers :
              IF a /= "y"
              THEN clothing' = [status |-> "declined"] /\ NoCall
              ELSE IF last_weather_data /= Absent /\ last_location /= Absent
              THEN \E out \in LLMFailures \cup {[text |-> t] : t \in ClotheTexts} :
                     /\ Call("llm_clothe", ClothePrompt(last_weather_data, last_location), out)
                     /\ clothing' = [status |-> "recommended",
                                     weather_data |-> last_weather_data,
                                     location |-> last_location,
                                     text |-> Recommendation(last_weather_data, last_location, out)]
              ELSE clothing' = [status |-> "no_information"] /\ NoCall
    /\ UNCHANGED <<Request, Agent, cli, typed, Locals, planning, possible_locations, evaluations, composed, reply, raised>>

\* main_clothe_weather_agent.py lines 57-110
ClotheStep ==
    /\ pc = "done" /\ cli = "main_clothe_weather_agent"
    /\ pc' = "turn_end"
    /\ IF raised /= "none"
       THEN clothing' = [status |-> "aborted"] /\ NoCall
       ELSE LET wd  == ClotheSnapshot(reply)
                loc == ClotheLocation(query)
            IN  \E a \in (IF AskingForClothing(query) THEN {"y"} ELSE Answers) :
                  IF a /= "y"
                  THEN clothing' = [status |-> "declined", weather_data |-> wd,
                                    location |-> loc] /\ NoCall
                  ELSE \E out \in LLMFailures \cup {[text |-> t] : t \in ClotheTexts} :
                         /\ Call("llm_clothe", ClothePrompt(wd, loc), out)
                         /\ clothing' = [status |-> "recommended", weather_data |-> wd,
                                         location |-> loc,
                                         text |-> Recommendation(wd, loc, out)]
    /\ UNCHANGED <<Request, Agent, cli, typed, Locals, planning, possible_locations, evaluations, composed, reply, raised>>

-----------------------------------------------------------------------------

Init ==
    /\ cli \in {"none"} \cup CLIs
    /\ variant = (IF cli = "none" THEN "direct" ELSE AgentOf(cli))
    /\ mode = "direct"
    /\ pc = "await"
    /\ query = <<>>
    /\ location = <<>>
    /\ needs_weather = TRUE
    /\ needs_location_info = TRUE
    /\ weather_data = None
    /\ wiki_data = None
    /\ reflection = None
    /\ reply = <<>>
    /\ raised = "none"
    /\ calls = <<>>
    /\ composed = None
    /\ last_weather_data = Absent
    /\ last_location = Absent
    /\ planning = None
    /\ possible_locations = <<>>
    /\ evaluations = <<>>
    /\ typed = ""
    /\ clothing = None

Next ==
    \/ Submit
    \/ Loop
    \/ DirectExtract
    \/ DirectWeather
    \/ DirectWiki
    \/ OpenAIPlan
    \/ OpenAICot
    \/ OpenAITot
    \/ OpenAIWeather
    \/ OpenAIWiki
    \/ OpenAIReflect
    \/ OpenAIRetryWeather
    \/ OpenAIRetryWiki
    \/ OpenAICompose
    \/ LCPlan
    \/ LCCot
    \/ LCTot
    \/ LCWeather
    \/ LCWiki
    \/ LCReflect
    \/ LCRetryWeather
    \/ LCRetryWiki
    \/ LCCompose
    \/ PromptReasoning
    \/ PromptQuery
    \/ MainDebug
    \/ MainCrash
    \/ MainPrint
    \/ SimpleClothing
    \/ ClotheStep

Spec == Init /\ [][Next]_vars

-----------------------------------------------------------------------------
(* Direct extraction on its own: _extract_location applied to every query  *)
(* made of a lead-in and a free text of at most MaxLen characters.         *)

TypedQueries == {l \o t : l \in LeadIns, t \in Texts(MaxLen)}

InitExtract ==
    /\ variant = "direct"
    /\ mode = "direct"
    /\ pc = "typed"
    /\ query \in TypedQueries
    /\ location = <<>>
    /\ needs_weather = TRUE
    /\ needs_location_info = TRUE
    /\ weather_data = None
    /\ wiki_data = None
    /\ reflection = None
    /\ reply = <<>>
    /\ raised = "none"
    /\ calls = <<>>
    /\ composed = None
    /\ last_weather_data = Absent
    /\ last_location = Absent
    /\ planning = None
    /\ possible_locations = <<>>
    /\ evaluations = <<>>
    /\ cli = "none"
    /\ typed = ""
    /\ clothing = None

\* location = self._extract_location(query)
ExtractStep ==
    /\ pc = "typed"
    /\ location' = ExtractLocation(query)
    /\ pc' = "extracted"
    /\ UNCHANGED <<Request, Agent, Caller, planning, possible_locations, evaluations, needs_weather, needs_location_info, weather_data,
                   wiki_data, reflection, composed, reply, raised, calls>>

NextExtract == ExtractStep

SpecExtract == InitExtract /\ [][NextExtract]_vars

-----------------------------------------------------------------------------
(* The clothing agent on its own: generate_clothing_recommendation applied *)
(* to every snapshot with a temperature of -3 to MaxTemp degrees and one   *)
(* of the conditions below.                                                *)

MaxTemp == 32

\* the descriptions of the snapshots
Conditions == {"unknown", "clear sky", "light rain", "drizzle", "Snow", "few clouds",
               "rain and snow", "rain, clearing", "snow, clearing"}

InitClothe ==
    /\ variant = "langchain"
    /\ mode = "react"
    /\ pc = "clothe"
    /\ query = <<>>
    /\ location = <<>>
    /\ needs_weather = TRUE
    /\ needs_location_info = TRUE
    /\ \E t \in -3..MaxTemp, c \in Conditions :
          weather_data = [main    |-> [temp |-> t, feels_like |-> t, humidity |-> 50],
                          weather |-> <<[description |-> c]>>]
    /\ wiki_data = None
    /\ reflection = None
    /\ reply = <<>>
    /\ raised = "none"
    /\ calls = <<>>
    /\ composed = None
    /\ last_weather_data = Absent
    /\ last_location = Absent
    /\ planning = None
    /\ possible_locations = <<>>
    /\ evaluations = <<>>
    /\ cli = "none"
    /\ typed = ""
    /\ clothing = None

\* clothe_agent.generate_clothing_recommendation(weather_data, location)
ClotheRecommend ==
    /\ pc = "clothe"
    /\ \E out \in LLMFailures \cup {[text |-> t] : t \in ClotheTexts} :
          /\ Call("llm_clothe", ClothePrompt(weather_data, <<"p">>), out)
          /\ clothing' = [status |-> "recommended", weather_data |-> weather_data,
                          location |-> <<"p">>,
                          text |-> Recommendation(weather_data, <<"p">>, out)]
    /\ pc' = "clothed"
    /\ UNCHANGED <<Request, Agent, cli, typed, Locals, planning, possible_locations, evaluations, reply, raised>>

NextClothe == ClotheRecommend

SpecClothe == InitClothe /\ [][NextClothe]_vars

-----------------------------------------------------------------------------
(* Claims.                                                                 *)

\* the positions at which sub occurs in s
Occurrences(s, sub) ==
    {i \in 1..(Len(s) - Len(sub) + 1) : SubSeq(s, i, i + Len(sub) - 1) = sub}

\* s with surrounding whitespace trimmed, then trailing punctuation removed
Trimmed(s) == RStripChars(PyStrip(s), Punct)

-----------------------------------------------------------------------------
(* Claims about one query's run through an orchestrator.                   *)

\* process_query is past its extraction step, in one of its pipelines
Underway ==
    /\ mode \in Modes
    /\ pc \in {"weather", "wiki", "reflect", "retry_weather", "retry_wiki", "compose", "done"}

\* the positions in the call log of the calls to a service
CallsOf(svc) == {i \in DOMAIN calls : calls[i].svc = svc}

\* the services of the extraction LLM call, one per reasoning mode
ExtractionServices == {"llm_plan", "llm_cot", "llm_tot"}

\* the replies that ask for a location
ClarifyReplies == {Clarify, ClarifyCot, ClarifyTot}

\* the reply holds the four figures of the snapshot wd
HasFigures(r, wd) ==
    /\ Contains(r, TempText(wd))
    /\ Contains(r, FeelsText(wd))
    /\ Contains(r, CondText(wd))
    /\ Contains(r, HumText(wd))

\* C2 as stated: in every orchestrator and mode, when a weather call of the
\* query (the retry's included) returned an error marker, the reply that
\* process_query returns holds the marker's message, and no nested weather
\* field is read from the marker.
C2_AsStated ==
    (pc = "done" /\ raised = "none") =>
        \A i \in CallsOf("weather") :
            HasError(calls[i].out) => Contains(reply, calls[i].out.error)

\* C3: one query makes at most one reflection call and at most one re-fetch
\* (of the weather, then of the encyclopedia) after it, and repeats no other
\* external call: at most two weather calls in react mode and at most one
\* in the cot, tot and direct pipelines.
C3_RetryAtMostOnce ==
    /\ Cardinality(CallsOf("llm_reflect")) <= 1
    /\ Cardinality(CallsOf("weather")) <= (IF mode = "react" THEN 2 ELSE 1)
    /\ Cardinality(CallsOf("wiki")) <= (IF mode = "react" THEN 2 ELSE 1)
    /\ \A r \in CallsOf("llm_reflect") :
          /\ Cardinality({i \in CallsOf("weather") : i > r}) <= 1
          /\ Cardinality({i \in CallsOf("wiki") : i > r}) <= 1
          /\ Cardinality({i \in CallsOf("weather") : i < r}) <= 1
          /\ Cardinality({i \in CallsOf("wiki") : i < r}) <= 1
    /\ (mode /= "react" /\ pc /= "debug_end") => CallsOf("llm_reflect") = {}
    /\ Cardinality({i \in DOMAIN calls : calls[i].svc \in ExtractionServices}) <= 1
    /\ Cardinality(CallsOf("llm_compose")) <= 1

\* a react query that reflected once and fetched the weather a second time
C3_Witness ==
    /\ pc = "done"
    /\ mode = "react"
    /\ Cardinality(CallsOf("llm_reflect")) = 1
    /\ Cardinality(CallsOf("weather")) = 2
    /\ \E r \in CallsOf("llm_reflect") : \E i \in CallsOf("weather") : i > r

\* the extraction call's outcome names no location
NamesNoLocation(out) ==
    \/ IsRaised(out)
    \/ "json" \in DOMAIN out
         /\ "location" \notin DOMAIN out.json
         /\ "selected_location" \notin DOMAIN out.json
    \/ "text" \in DOMAIN out
         /\ \A k \in DOMAIN out.text :
               out.text[k] = <<>>
                 \/ out.text[k][1] \notin {"LOCATION:", "SELECTED LOCATION:", "POSSIBLE LOCATION:"}

\* C4 as stated: in every LLM-backed orchestrator, when the extraction LLM
\* call raises or its reply cannot be parsed into a location, the extracted
\* location is empty and process_query returns the clarify reply without a
\* weather or encyclopedia call.
C4_AsStated ==
    \A i \in DOMAIN calls :
        (Underway /\ calls[i].svc \in ExtractionServices /\ NamesNoLocation(calls[i].out)) =>
            /\ Empty(location)
            /\ pc = "done"
            /\ reply \in ClarifyReplies
            /\ CallsOf("weather") = {}
            /\ CallsOf("wiki") = {}

\* the query is made of whitespace and punctuation only
Blank(q) == \A k \in DOMAIN q : q[k] \in Whitespace \cup Punct

C6_AsStated == pc = "done" => raised = "none"

\* C7 as stated: once a query of the LangChain orchestrator has fetched the
\* weather, last_weather_data and last_location hold that query's snapshot
\* and location.
C7_AsStated ==
    (variant = "langchain" /\ pc = "done" /\ raised = "none"
        /\ \E i \in CallsOf("weather") : ~HasError(calls[i].out)) =>
            (last_weather_data = weather_data /\ last_location = location)

\* the composition LLM call of the query raised
ComposeFailed ==
    \E i \in CallsOf("llm_compose") : IsRaised(calls[i].out)

\* C8 as stated: in every LLM-backed orchestrator, when the composition LLM
\* call fails the reply is a template holding the location, the four
\* figures and the source URL.
C8_AsStated ==
    (pc = "done" /\ ComposeFailed) =>
        /\ HasFigures(reply, weather_data)
        /\ Contains(reply, OpenWeatherMapUrl)

\* C8, amended: when the composition LLM call fails, the LangChain
\* orchestrator returns, in every mode, a template holding the location,
\* the four figures and the OpenWeatherMap URL; the OpenAI orchestrator
\* returns a fixed sentence naming the location, with no figure and no URL.
C8_LangChainTemplateOnly ==
    (pc = "done" /\ ComposeFailed) =>
        /\ raised = "none"
        /\ Contains(reply, Fmt(location))
        /\ IF variant = "langchain"
           THEN HasFigures(reply, weather_data) /\ Contains(reply, OpenWeatherMapUrl)
           ELSE /\ reply = OpenAIComposeFailed(location)
                /\ ~Contains(reply, TempText(weather_data))
                /\ ~Contains(reply, HumText(weather_data))
                /\ ~Contains(reply, OpenWeatherMapUrl)

\* a LangChain query whose composition call raised got the template
C8_Witness ==
    /\ variant = "langchain"
    /\ pc = "done"
    /\ ComposeFailed
    /\ location = <<"p">>
    /\ HasFigures(reply, weather_data)
    /\ Contains(reply, OpenWeatherMapUrl)

\* every weather call of the query returned a full snapshot, and the last
\* encyclopedia lookup returned an error marker
WeatherOkWikiFailed ==
    /\ CallsOf("weather") /= {}
    /\ \A i \in CallsOf("weather") : HasNested(calls[i].out)
    /\ CallsOf("wiki") /= {}
    /\ \A i \in CallsOf("wiki") : i = MaxOf(CallsOf("wiki")) => HasError(calls[i].out)

\* the reply has an encyclopedia section
HasAbout(r) ==
    \E k \in DOMAIN r : r[k] \in {"About ", "Learn more: "}

C10_AsStated ==
    /\ (pc = "done" /\ reply \in ClarifyReplies) =>
          \A i \in DOMAIN calls : calls[i].svc \in ExtractionServices
    /\ \A i \in CallsOf("weather") :
          (i = MinOf(CallsOf("weather")) /\ HasError(calls[i].out)) =>
              /\ pc = "done"
              /\ reply = Sorry(calls[i].out)
              /\ i = Len(calls)
              /\ CallsOf("wiki") = {}

\* the state of the orchestrator's state machine a position belongs to
Stage(p) ==
    CASE p \in {"await", "query_prompt", "debug_prompt"} -> 0
      [] p = "extract" -> 1
      [] p \in {"weather", "wiki", "retry_weather", "retry_wiki"} -> 2
      [] p = "reflect" -> 3
      [] p = "compose" -> 4
      [] OTHER -> 5

\* the reflection judged the data insufficient and proposed trying a
\* non-empty alternative location
ProposesAlternative(refl) ==
    /\ "sufficient" \in DOMAIN refl /\ ~refl.sufficient
    /\ "suggested_action" \in DOMAIN refl
    /\ IF variant = "openai"
       THEN refl.suggested_action = "try_alternative_location"
       ELSE refl.suggested_action = <<"try_alternative_location">>
    /\ "alternative_location" \in DOMAIN refl
    /\ ~Empty(refl.alternative_location)

\* the states are visited in the order ExtractLocation, FetchData, Reflect,
\* Compose, Done, but for the edge from Reflect back to FetchData
InOrder ==
    \/ Stage(pc) <= Stage(pc')
    \/ pc = "reflect" /\ pc' \in {"retry_weather", "retry_wiki"}
    \/ pc \in {"done", "turn_end", "debug_end"} /\ pc' = "await"

\* C11 as stated: the orchestrator visits its states in the order
\* ExtractLocation, FetchData, Reflect (react mode only), Compose, Done, and
\* goes from Reflect back to FetchData only in react mode, when the
\* reflection judged the data insufficient and proposed a non-empty
\* alternative location.
C11_AsStated ==
    [][/\ InOrder
       /\ pc' = "reflect" => mode' = "react"
       /\ pc' \in {"retry_weather", "retry_wiki"} =>
             (mode' = "react" /\ ProposesAlternative(reflection'))]_vars

\* the lines of an LLM reply that carry a field, by position
LinesOf(t, field) ==
    {k \in DOMAIN t : PyStrip(t[k]) /= <<>> /\ PyStrip(t[k])[1] = field}

\* the value a line gives after its field prefix
ValueOf(l) == PyStrip(Tail(PyStrip(l)))

\* the tot extraction call of the LangChain orchestrator has answered with
\* a text that lists candidates and selects none
TotListsWithoutSelecting ==
    /\ variant = "langchain" /\ mode = "tot"
    /\ Underway
    /\ "text" \in DOMAIN calls[1].out
    /\ LinesOf(calls[1].out.text, "POSSIBLE LOCATION:") /= {}
    /\ \A k \in LinesOf(calls[1].out.text, "SELECTED LOCATION:") :
          ValueOf(calls[1].out.text[k]) = <<>>

\* C12 as stated: when the tot reply lists one or more candidates and
\* selects none, the first candidate becomes the location and the query
\* goes on to the weather fetch instead of the clarify reply.
C12_AsStated ==
    TotListsWithoutSelecting =>
        LET t == calls[1].out.text
        IN  /\ location = ValueOf(t[MinOf(LinesOf(t, "POSSIBLE LOCATION:"))])
            /\ reply /= ClarifyTot

\* C12, amended: in the tot mode of the LangChain orchestrator, when the
\* reply selects no location, a single listed candidate becomes the
\* location and the query goes on to the weather fetch; with two or more
\* candidates nothing is selected and the query ends with the tot clarify
\* reply, no weather or encyclopedia call being made.
C12_OnlyCandidate ==
    TotListsWithoutSelecting =>
        LET t == calls[1].out.text
            c == LinesOf(t, "POSSIBLE LOCATION:")
        IN  IF Cardinality(c) = 1
            THEN /\ location = ValueOf(t[MinOf(c)])
                 /\ location /= <<>> => (reply /= ClarifyTot /\ (Len(calls) = 1 => pc = "weather"))
            ELSE /\ location = <<>>
                 /\ pc = "done" /\ reply = ClarifyTot /\ Len(calls) = 1

\* the only candidate " POSSIBLE LOCATION: p " of a reply whose selection
\* is empty has become the location, and the weather fetch is next
C12_Witness ==
    /\ TotListsWithoutSelecting
    /\ pc = "weather"
    /\ calls[1].out.text[1] = <<" ", "POSSIBLE LOCATION:", " ", "p", " ">>
    /\ location = <<"p">>

\* the reply attributes the weather data to OpenWeatherMap
WeatherAttribution(r) ==
    Contains(r, <<"Sources: [Weather data from OpenWeatherMap](">> \o OpenWeatherMapUrl)

\* the reply attributes the location information to Wikipedia
WikiAttribution(r) == Contains(r, <<"[Location info from Wikipedia](">>)

\* the weather fetch succeeded and the composer has produced the reply
ComposerReplied ==
    /\ pc = "done" /\ raised = "none"
    /\ HasNested(weather_data)
    /\ variant = "direct" \/ CallsOf("llm_compose") /= {}

\* C13 as stated: every reply the composer produces for a query whose
\* weather fetch succeeded ends with source attribution for the weather
\* source and for the encyclopedia source.
C13_AsStated ==
    ComposerReplied => (WeatherAttribution(reply) /\ WikiAttribution(reply))

\* C13, amended: the code appends no attribution itself. An LLM-composed
\* reply is returned as the LLM wrote it, the LLM having been handed the
\* encyclopedia URL (empty when the lookup failed); the LangChain fallback
\* template attributes the weather data to OpenWeatherMap and never names
\* the encyclopedia; the OpenAI fallback sentence and the reply of the
\* direct orchestrator carry no source attribution.
C13_AttributionLeftToLLM ==
    ComposerReplied =>
        /\ (variant /= "direct" /\ ~ComposeFailed) =>
              /\ reply = calls[Len(calls)].out.text
              /\ composed.wiki_url =
                    (IF ~Falsy(wiki_data) /\ ~HasError(wiki_data) /\ "url" \in DOMAIN wiki_data
                     THEN wiki_data.url ELSE <<>>)
        /\ (variant = "langchain" /\ ComposeFailed) =>
              (WeatherAttribution(reply) /\ ~WikiAttribution(reply))
        /\ (variant = "openai" /\ ComposeFailed) =>
              (~WeatherAttribution(reply) /\ ~WikiAttribution(reply))
        /\ variant = "direct" =>
              (~WeatherAttribution(reply) /\ ~WikiAttribution(reply))

\* a LangChain fallback reply that names OpenWeatherMap only, although the
\* encyclopedia lookup succeeded
C13_Witness ==
    /\ ComposerReplied
    /\ variant = "langchain"
    /\ ComposeFailed
    /\ ~Falsy(wiki_data) /\ ~HasError(wiki_data)
    /\ WeatherAttribution(reply)
    /\ ~WikiAttribution(reply)

\* s holds none of the three prefixes of direct extraction
NoPrefixIn(s) ==
    /\ Occurrences(s, WeatherIn) = {}
    /\ Occurrences(s, WeatherFor) = {}
    /\ Occurrences(s, WeatherAt) = {}

\* C14: direct extraction lower-cases the query and strips its trailing
\* punctuation; when the cleaned query holds none of the prefixes
\* "weather in ", "weather for ", "weather at ", the location is the whole
\* cleaned query, hence non-empty whenever the cleaned query is.
C14_WholeCleanedQuery ==
    pc = "extracted" =>
        LET cleaned == Trimmed(PyLower(query))
        IN  NoPrefixIn(cleaned) =>
                /\ location = cleaned
                /\ cleaned /= <<>> => location /= <<>>

\* the query "P p?" without a prefix has been extracted as "p p"
C14_Witness ==
    /\ pc = "extracted"
    /\ query = <<"P", " ", "p", "?">>
    /\ location = <<"p", " ", "p">>

-----------------------------------------------------------------------------
(* Claims about the prompt loops.                                          *)

\* the step reads 'exit', in any letter case, at one of the prompts of a
\* prompt loop
EnteredExit ==
    /\ cli \in CLIs
    /\ \/ pc = "await" /\ pc' = "query_prompt" /\ ToLower(typed') = "exit"
       \/ pc \in {"query_prompt", "debug_prompt"} /\ PyLower(query') = <<"exit">>

\* C15 as stated: in every prompt loop, whenever the user enters 'exit' (any
\* letter case) the loop terminates without processing a further query, at
\* the reasoning-mode prompt just as at the query prompt.
C15_AsStated == [][EnteredExit => pc' = "exited"]_vars

\* C16: in every prompt loop the reasoning type handed to process_query is
\* one of react, cot, tot: the token typed is lower-cased, and a blank token
\* or a token outside {react, cot, tot} is replaced by react, so the reply
\* "Invalid reasoning type" is never returned to a prompt loop.
C16_LoopModeIsValid ==
    cli \in CLIs =>
        /\ pc = "query_prompt" =>
              mode = (IF ToLower(typed) \in Modes THEN ToLower(typed) ELSE "react")
        /\ pc /= "await" => mode \in Modes
        /\ reply /= InvalidReasoning

\* the token "fast" was typed in main.py and react is about to be used
C16_Witness ==
    /\ cli = "main"
    /\ pc = "query_prompt"
    /\ typed = "fast"
    /\ mode = "react"

-----------------------------------------------------------------------------
(* Claims about the two service clients.                                   *)

\* s neither starts nor ends with whitespace
IsTrimmed(s) == s = <<>> \/ (s[1] \notin Whitespace /\ s[Len(s)] \notin Whitespace)

\* C17: every call of get_weather with a location string makes its one GET
\* with the trimmed location, the API key and units=metric, and returns the
\* body of the 2xx response or, when the GET raised (no connection, a status
\* of 400 or more), a marker whose only key is "error" and whose message
\* carries the exception's text; nothing is raised to the caller.
C17_OneGetMarkerOrPayload ==
    \A i \in CallsOf("weather") :
        LET c == calls[i]
        IN  /\ DOMAIN c.arg = {"q", "appid", "units"}
            /\ IsTrimmed(c.arg.q)
            /\ c.arg.appid = ApiKey
            /\ c.arg.units = "metric"
            /\ ~IsRaised(c.out)
            /\ IF HasError(c.out)
               THEN /\ DOMAIN c.out = {"error"}
                    /\ \E e \in RequestErrors : c.out.error = <<"Weather API error: ", e>>
               ELSE c.out \in {Payload(c.arg.q), BarePayload}

\* a location that came with a blank at its end was looked up trimmed, and
\* the GET failed with a 404
C17_Witness ==
    \E i \in CallsOf("weather") :
        /\ ~IsTrimmed(location)
        /\ calls[i].arg.q = PyStrip(location)
        /\ calls[i].out = [error |-> <<"Weather API error: ", "404 Client Error: Not Found">>]

\* C18 as stated: get_location_info returns an error marker when the search
\* has no hits or the lookup raises, and the summary and URL of the first
\* hit otherwise; it never raises to the caller.
C18_AsStated ==
    \A i \in CallsOf("wiki") :
        /\ ~IsRaised(calls[i].out)
        /\ HasError(calls[i].out) \/ DOMAIN calls[i].out = {"summary", "url"}

-----------------------------------------------------------------------------
(* Claims about the parsing of the planning reply.                         *)

\* the value of a field of the planning text t: what stands after the prefix
\* on the last line that carries it, dflt when no line does
LastValue(t, field, dflt) ==
    IF LinesOf(t, field) = {} THEN dflt ELSE ValueOf(t[MaxOf(LinesOf(t, field))])

\* the pieces of v between its commas, each trimmed
CommaList(v) ==
    LET at == {0} \cup {k \in DOMAIN v : v[k] = ","} \cup {Len(v) + 1}
        nxt(a) == MinOf({b \in at : b > a})
        starts == [n \in 1..(Cardinality(at) - 1) |->
                     CHOOSE a \in at : Cardinality({b \in at : b < a}) = n - 1]
    IN  [n \in DOMAIN starts |-> PyStrip(SubSeq(v, starts[n] + 1, nxt(starts[n]) - 1))]

\* C19 as stated: for any planning text of the react mode, a field whose
\* prefixed line is absent keeps its default (location "", needs_weather
\* true, needs_location_info true, time_period "current", weather_aspects
\* empty), a field whose line is present takes the value after the prefix
\* (yes or no for the two flags, lower-cased for the time period, split at
\* the commas for the aspects), the last line wins when several carry the
\* same prefix, and the parsing does not fail.
C19_AsStated ==
    (variant = "langchain" /\ mode = "react" /\ Underway /\ "text" \in DOMAIN calls[1].out) =>
        LET t == calls[1].out.text
        IN  /\ planning /= None
            /\ planning.location = LastValue(t, "LOCATION:", <<>>)
            /\ planning.needs_weather =
                  (PyLower(LastValue(t, "NEEDS_WEATHER:", <<"yes">>)) = <<"yes">>)
            /\ planning.needs_location_info =
                  (PyLower(LastValue(t, "NEEDS_LOCATION_INFO:", <<"yes">>)) = <<"yes">>)
            /\ planning.time_period = PyLower(LastValue(t, "TIME_PERIOD:", <<"current">>))
            /\ planning.weather_aspects =
                  (IF LinesOf(t, "WEATHER_ASPECTS:") = {} THEN <<>>
                   ELSE CommaList(LastValue(t, "WEATHER_ASPECTS:", <<>>)))

\* the value of a field of the planning text t when every occurrence of the
\* prefix is removed from the last line that carries it
LastCleared(t, field, dflt) ==
    IF LinesOf(t, field) = {} THEN dflt
    ELSE PyStrip(SelectSeq(PyStrip(t[MaxOf(LinesOf(t, field))]), LAMBDA c : c /= field))

\* C19, amended: for any planning text of the react mode, a field whose
\* prefixed line is absent keeps its default, the last line wins when
\* several carry the same prefix, and a field whose line is present takes
\* what is left of that line once every occurrence of the prefix, not only
\* the leading one, is removed and the rest is trimmed (yes or no for the
\* two flags, lower-cased for the time period, split at the commas for the
\* aspects, so that an empty value gives one empty aspect); the parsing does
\* not fail, and an empty location ends the query with the clarify reply.
C19_PrefixRemovedEverywhere ==
    (variant = "langchain" /\ mode = "react" /\ Underway /\ "text" \in DOMAIN calls[1].out) =>
        LET t == calls[1].out.text
        IN  /\ planning /= None
            /\ planning.location = LastCleared(t, "LOCATION:", <<>>)
            /\ planning.needs_weather =
                  (PyLower(LastCleared(t, "NEEDS_WEATHER:", <<"yes">>)) = <<"yes">>)
            /\ planning.needs_location_info =
                  (PyLower(LastCleared(t, "NEEDS_LOCATION_INFO:", <<"yes">>)) = <<"yes">>)
            /\ planning.time_period = PyLower(LastCleared(t, "TIME_PERIOD:", <<"current">>))
            /\ planning.weather_aspects =
                  (IF LinesOf(t, "WEATHER_ASPECTS:") = {} THEN <<>>
                   ELSE CommaList(LastCleared(t, "WEATHER_ASPECTS:", <<>>)))
            /\ location = <<>> => (pc = "done" /\ reply = Clarify /\ raised = "none")
            /\ Len(calls) = 1 => raised = "none"

\* a planning text with two LOCATION lines and two NEEDS_WEATHER lines has
\* been parsed: the last of each won, and the period and the aspects were
\* read
C19_Witness ==
    /\ variant = "langchain" /\ mode = "react" /\ Underway
    /\ "text" \in DOMAIN calls[1].out
    /\ Cardinality(LinesOf(calls[1].out.text, "LOCATION:")) = 2
    /\ Cardinality(LinesOf(calls[1].out.text, "NEEDS_WEATHER:")) = 2
    /\ planning.location = <<"q">>
    /\ planning.needs_weather
    /\ planning.needs_location_info
    /\ planning.time_period = <<"today">>
    /\ planning.weather_aspects = << <<"rain">>, <<"wind">> >>

-----------------------------------------------------------------------------
(* Claims about the clothing step.                                         *)

\* C20 as stated: in the weather-and-clothing loop, when the agent exposes
\* no snapshot for the turn, the clothing step is neither skipped nor
\* aborted for lack of data (it ends with a recommendation, or with the
\* user declining one), the recommendation is computed from the default
\* snapshot, and a location that could not be found is replaced by "the
\* provided location".
C20_AsStated ==
    (cli = "main_clothe_weather_agent" /\ pc = "turn_end" /\ last_weather_data = Absent) =>
        /\ clothing /= None
        /\ clothing.status \in {"recommended", "declined"}
        /\ clothing.status = "recommended" =>
              /\ clothing.weather_data = DefaultSnapshot
              /\ Empty(GuessedLocation(query)) => clothing.location = ProvidedLocation
              /\ \E i \in CallsOf("llm_clothe") :
                    calls[i].arg = ClothePrompt(DefaultSnapshot, clothing.location)

-----------------------------------------------------------------------------
(* Claims about the dispatch of process_query.                             *)

\* the service of the extraction LLM call of a pipeline
ExtractionServiceOf(m) ==
    CASE m = "react" -> "llm_plan"
      [] m = "cot" -> "llm_cot"
      [] m = "tot" -> "llm_tot"

\* C21: process_query of an LLM-backed agent, called with a reasoning type
\* that is react, cot or tot in any letter case, runs the pipeline of that
\* name and no other (its extraction call is the first call, the reflection
\* call is made in react only); called with any other type it returns the
\* "Invalid reasoning type" string with no extraction and no call at all.
C21_DispatchByLoweredType ==
    (cli = "none" /\ variant /= "direct" /\ pc /= "await") =>
        IF ToLower(typed) \in Modes
        THEN /\ mode = ToLower(typed)
             /\ reply /= InvalidReasoning
             /\ \A i \in DOMAIN calls :
                   calls[i].svc \in ExtractionServices =>
                       (i = 1 /\ calls[i].svc = ExtractionServiceOf(mode))
             /\ pc /= "extract" => (calls /= <<>> /\ calls[1].svc = ExtractionServiceOf(mode))
             /\ mode /= "react" => CallsOf("llm_reflect") = {}
        ELSE /\ pc = "done"
             /\ reply = InvalidReasoning
             /\ raised = "none"
             /\ calls = <<>>
             /\ location = <<>>

\* the type "COT" ran the cot pipeline to its end
C21_Witness ==
    /\ cli = "none" /\ variant = "openai"
    /\ typed = "COT"
    /\ pc = "done"
    /\ calls /= <<>> /\ calls[1].svc = "llm_cot"
    /\ CallsOf("llm_compose") /= {}

-----------------------------------------------------------------------------
(* Claims about the reflection and the retry.                              *)

\* the reflection call raised, or its reply has no "sufficient" key (no
\* SUFFICIENT: line)
NoVerdictGiven(out) ==
    \/ IsRaised(out)
    \/ "json" \in DOMAIN out /\ "sufficient" \notin DOMAIN out.json
    \/ "text" \in DOMAIN out /\ LinesOf(out.text, "SUFFICIENT:") = {}

\* the reflection call raised, or its reply gives neither yes nor no
LacksVerdict(out) ==
    \/ NoVerdictGiven(out)
    \/ "text" \in DOMAIN out
         /\ \A k \in LinesOf(out.text, "SUFFICIENT:") :
               PyLower(ValueOf(out.text[k])) \notin {<<"yes">>, <<"no">>}

\* after the reflection call at position r of the log, nothing was fetched
\* again and the location and the data are those of before the call
NothingRetried(r) ==
    /\ pc \in {"compose", "done"}
    /\ \A i \in DOMAIN calls : i > r => calls[i].svc = "llm_compose"
    /\ \A i \in CallsOf("weather") :
          calls[i].arg.q = PyStrip(location) /\ weather_data = calls[i].out
    /\ \A i \in CallsOf("wiki") :
          calls[i].arg = location
            /\ (IsRaised(calls[i].out) \/ wiki_data = calls[i].out)
    /\ CallsOf("weather") = {} => weather_data = None
    /\ CallsOf("wiki") = {} => wiki_data = None

FetchedFor(loc) ==
    /\ CallsOf("weather") /= {} =>
          LET c == calls[MaxOf(CallsOf("weather"))]
          IN  c.arg.q = PyStrip(loc) /\ weather_data = c.out
    /\ CallsOf("wiki") /= {} =>
          LET c == calls[MaxOf(CallsOf("wiki"))]
          IN  c.arg = loc /\ wiki_data = c.out

\* something was fetched again after the reflection call
Retried ==
    \E r \in CallsOf("llm_reflect") :
        \E i \in DOMAIN calls : i > r /\ calls[i].svc \in {"weather", "wiki"}

\* C23 as stated: when Compose runs in react mode, the weather data and the
\* encyclopedia data it is handed were both fetched for the location it is
\* handed: the alternative location after a retry, the extracted one
\* without a retry.
C23_AsStated ==
    (mode = "react" /\ pc = "compose") =>
        /\ FetchedFor(location)
        /\ Retried => location = reflection.alternative_location

-----------------------------------------------------------------------------
(* Claims about the fallback recommendation.                               *)

\* the four clothing phrases, from the lightest to the heaviest
Light == "light clothing such as t-shirts, shorts or light dresses"
Medium == "medium-weight clothing such as long sleeves, light jackets, or jeans"
Warm == "warm clothing such as sweaters, jackets, and long pants"
Heavy == "heavy winter clothing including a warm coat, scarf, gloves, and hat"

\* the three condition hints
RainHint == ". Don't forget a waterproof jacket or umbrella"
SnowHint == ". Make sure to wear waterproof boots and a warm hat"
SunHint == ". Consider wearing sunglasses and applying sunscreen"

\* the tokens of the text s that are among the tokens of S
Among(s, S) == {k \in DOMAIN s : s[k] \in S}

\* C24: when the recommending LLM call fails, the recommendation for an
\* integer temperature t and a condition c holds exactly one clothing
\* phrase (light for t > 25, medium-weight for 15 < t <= 25, warm for
\* 5 < t <= 15, heavy winter for t <= 5) and at most one hint: the rain hint
\* when c holds rain or drizzle, else the snow hint when c holds snow, else
\* the sunscreen hint when c holds clear and t > 20; and it names t and c
\* as given.
C24_FallbackTiersAndHints ==
    (pc = "clothed" /\ IsRaised(calls[1].out)) =>
        LET t == weather_data.main.temp
            c == weather_data.weather[1].description
            r == clothing.text
            rain == ToLower(c) \in RainConditions
            snow == ToLower(c) \in SnowConditions
            clear == ToLower(c) \in ClearConditions
        IN  /\ Cardinality(Among(r, {Light, Medium, Warm, Heavy})) = 1
            /\ Contains(r, <<Light>>) <=> t > 25
            /\ Contains(r, <<Medium>>) <=> (15 < t /\ t <= 25)
            /\ Contains(r, <<Warm>>) <=> (5 < t /\ t <= 15)
            /\ Contains(r, <<Heavy>>) <=> t <= 5
            /\ Cardinality(Among(r, {RainHint, SnowHint, SunHint})) <= 1
            /\ Contains(r, <<RainHint>>) <=> rain
            /\ Contains(r, <<SnowHint>>) <=> (~rain /\ snow)
            /\ Contains(r, <<SunHint>>) <=> (~rain /\ ~snow /\ clear /\ t > 20)
            /\ Contains(r, <<"Based on the current temperature of ", ToString(t), "°C with ", c>>)

\* at 25 degrees with rain and snow the recommendation is medium-weight
\* clothing with the rain hint
C24_Witness ==
    /\ pc = "clothed"
    /\ IsRaised(calls[1].out)
    /\ weather_data.main.temp = 25
    /\ weather_data.weather[1].description = "rain and snow"
    /\ Contains(clothing.text, <<Medium, RainHint, ".">>)

-----------------------------------------------------------------------------
(* Claims about direct extraction, on every typed query.                   *)

\* C25 as stated: for every query, the location returned by direct
\* extraction has no leading or trailing whitespace and does not end with
\* one of the characters ?!.,;:
C25_AsStated ==
    pc = "extracted" =>
        /\ IsTrimmed(location)
        /\ location /= <<>> => location[Len(location)] \notin Punct

\* the prefixes of direct extraction, in the order they are tried
ExtractionPrefixes == <<WeatherIn, WeatherFor, WeatherAt>>

\* C26: direct extraction uses the first of "weather in ", "weather for ",
\* "weather at " that occurs in the cleaned query, wherever the others
\* occur, and takes the text between the first occurrence of that prefix
\* and its second one (the end of the query when there is none), trimmed
\* and without its trailing punctuation.
C26_FirstPrefixFirstPiece ==
    pc = "extracted" =>
        LET cq   == PyStrip(PyLower(query))
            cl   == RStripChars(cq, Punct)
            has  == {k \in DOMAIN ExtractionPrefixes : Occurrences(cl, ExtractionPrefixes[k]) /= {}}
        IN  has /= {} =>
              LET occ   == Occurrences(cl, ExtractionPrefixes[MinOf(has)])
                  first == MinOf(occ)
                  end   == IF occ = {first} THEN Len(cl) ELSE MinOf(occ \ {first}) - 1
              IN  location = RStripChars(PyStrip(SubSeq(cl, first + 2, end)), Punct)

\* "weather at" stands before "weather in", which occurs twice: the
\* location is the text between the two "weather in"
C26_Witness ==
    /\ pc = "extracted"
    /\ query = WeatherAt \o <<"p", " ">> \o WeatherIn \o <<"P", " ">> \o WeatherIn \o <<"P", "P">>
    /\ location = <<"p">>

-----------------------------------------------------------------------------
(* Claims about the react pipeline when the plan asks for no weather.      *)

\* the weather calls of the query that returned a usable payload
SucceededGets ==
    {i \in CallsOf("weather") : ~HasError(calls[i].out) /\ HasNested(calls[i].out)}

\* the reply holds the four figures of some payload of the weather service
HoldsFigures(r) ==
    \E loc \in {<<"p">>, <<"q">>} :
        \E wd \in GetWeatherResults(loc) : HasNested(wd) /\ HasFigures(r, wd)

\* C27 as stated: in react mode, when the plan gave needs_weather false and
\* a location, process_query issues no weather GET, makes no composing LLM
\* call and returns "I couldn't find weather information for <location>.";
\* and a reply holding weather figures is returned only after a weather GET
\* of the query succeeded.
C27_AsStated ==
    (mode = "react" /\ variant \in {"openai", "langchain"} /\ pc = "done") =>
        /\ (needs_weather = FALSE /\ ~Empty(location)) =>
              /\ CallsOf("weather") = {}
              /\ CallsOf("llm_compose") = {}
              /\ reply = NotFound(location)
        /\ HoldsFigures(reply) => SucceededGets /= {}

-----------------------------------------------------------------------------
(* Claims about the parsing of the tot reply.                              *)

\* the tot extraction call of the LangChain orchestrator has answered with
\* a text, which has been parsed
TotParsed ==
    /\ variant = "langchain" /\ mode = "tot"
    /\ calls /= <<>>
    /\ calls[1].svc = "llm_tot"
    /\ "text" \in DOMAIN calls[1].out

\* the i-th smallest element of a set of positions
Nth(S, i) == CHOOSE k \in S : Cardinality({j \in S : j <= k}) = i

\* the integer a score text reads as, 0 for a text that is no integer
ScoreRead(v) ==
    IF \E n \in 0..100 : v = <<ToString(n)>>
    THEN CHOOSE n \in 0..100 : v = <<ToString(n)>>
    ELSE 0

\* C28: after the tot reply is parsed, the candidate list holds the values
\* of the POSSIBLE LOCATION lines in the order of the lines; every key of
\* the evaluations map is in the candidate list; a key names a candidate
\* one of whose POSSIBLE LOCATION lines is followed by a SCORE line before
\* the next POSSIBLE LOCATION line; and every stored score is an integer,
\* the one such a SCORE line reads as, 0 when its text is no integer.
C28_EvaluationsOfCandidates ==
    TotParsed =>
        LET t  == calls[1].out.text
            c  == LinesOf(t, "POSSIBLE LOCATION:")
            sc == LinesOf(t, "SCORE:")
        IN  /\ Len(possible_locations) = Cardinality(c)
            /\ \A i \in DOMAIN possible_locations :
                  possible_locations[i] = ValueOf(t[Nth(c, i)])
            /\ \A x \in DOMAIN evaluations :
                  /\ \E i \in DOMAIN possible_locations : possible_locations[i] = x
                  /\ evaluations[x].score \in Int
                  /\ \E k \in c, n \in sc :
                        /\ ValueOf(t[k]) = x
                        /\ k < n
                        /\ \A j \in c : ~(k < j /\ j < n)
                        /\ evaluations[x].score = ScoreRead(ValueOf(t[n]))

\* the reply lists p with the score text 8.5, then q without a score, then
\* p again: the candidates are p, q, p and the only evaluation is that of
\* p, with the score 0
C28_Witness ==
    /\ TotParsed
    /\ Len(calls[1].out.text) = 6
    /\ calls[1].out.text[2] = <<"SCORE:", " ", "8.5">>
    /\ possible_locations = << <<"p">>, <<"q">>, <<"p">> >>
    /\ DOMAIN evaluations = {<<"p">>}
    /\ evaluations[<<"p">>].score = 0

-----------------------------------------------------------------------------
(* Claims about the encyclopedia lookups of the OpenAI react pipeline.     *)

\* the arguments of the encyclopedia lookups of the query, in order
LookedUp ==
    LET w == SelectSeq(calls, LAMBDA c : c.svc = "wiki")
    IN  [i \in DOMAIN w |-> w[i].arg]

\* the react run of the OpenAI orchestrator is over, its plan gave a
\* location, and its weather step, if it had one, returned a usable payload
ReactRunPastWeather ==
    /\ variant = "openai" /\ mode = "react" /\ pc = "done"
    /\ planning /= None
    /\ ~Empty(DictGet(planning, "location", NoneStr))
    /\ needs_weather =>
          /\ Len(calls) >= 2
          /\ ~HasError(calls[2].out) /\ HasNested(calls[2].out)

\* C29 as stated: in the react pipeline of the OpenAI orchestrator, when a
\* location was extracted and the weather step did not fail, exactly one
\* encyclopedia lookup is made for the extracted location, followed by one
\* for the alternative location when the retry edge is taken, whatever the
\* plan gave for needs_location_info.
C29_AsStated ==
    ReactRunPastWeather =>
        LookedUp = <<planning.location>>
                     \o (IF OpenAIRetryTaken(reflection)
                         THEN <<reflection.alternative_location>> ELSE <<>>)

=============================================================================
